---- MODULE Spec2Model ----
(***************************************************************************)
(* Linksy mail client: the account/connection orchestration                *)
(* (state/account_manager.rs, controller/connection_manager.rs), the three *)
(* protocol clients (protocols/{imap,pop3,smtp}.rs) and the                *)
(* synchronisation engine over the cache (state/email_manager.rs,          *)
(* storage/mod.rs).                                                        *)
(*                                                                         *)
(* Two tasks run concurrently against the same Account Records and         *)
(* Protocol Clients: the foreground task ("fg"), which runs one            *)
(* AccountManager / client operation at a time, and the Health Loop task   *)
(* ("hl") of ConnectionManager::start_background_checker.  Every           *)
(* Protocol Client sits behind its own tokio Mutex, every Account Record   *)
(* behind its own; a step of the model is the code between two lock        *)
(* acquisitions that another task can observe.                             *)
(***************************************************************************)
EXTENDS Integers, Sequences, FiniteSets, TLC

\* the configured accounts, by index (AccountManager.accounts).  Account Records
\* and their clients share nothing (each has its own mutex), and every loop over
\* the accounts is sequential, so one account with every configuration is modelled.
Accounts == {1}

\* AccountManager.accounts.len()
AccountsLen == Cardinality(Accounts)

\* the index arguments: the valid ones and one with index >= accounts.len()
Indices == Accounts \cup {AccountsLen + 1}

\* the order in which connect_account / retry_connections / the Health Loop
\* visit the protocols of one account
Protocols == <<"imap", "pop3", "smtp">>

ProtoSet == {"imap", "pop3", "smtp"}

ConnectionStatus == {"Disconnected", "Connecting", "Connected", "Failed"}

VARIABLES
    config,       \* config[a][p]: is protocol p configured (EmailAccount.imap / .pop3 is Some)
    status,       \* status[a][p]: Account.imap_status / pop3_status / smtp_status
    last_error,   \* last_error[a]: Account.last_error ("none" = None)
    session,      \* session[a][p]: ImapClient.session / Pop3Client.connection / SmtpClient.transport
    clientLock,   \* clientLock[a][p]: holder of the Arc<Mutex<..Client>> ("free", "fg", "hl")
    fgOp,         \* foreground task: operation in progress
    fgPc,         \* foreground task: position inside the operation
    fgIdx,        \* foreground task: the index argument / loop index
    fgK,          \* foreground task: position in Protocols
    fgAny,        \* connect_account: any_connection_successful
    fgSeen,       \* retry_connections: the status each protocol had when it was inspected
    fgTrace,      \* the client calls the current operation has made, with their outcomes
    fgRet,        \* the value the finished operation returns
    hlPc,         \* Health Loop: position inside the pass
    hlIdx,        \* Health Loop: account index i of the pass
    hlK,          \* Health Loop: position in Protocols
    connEvent,    \* the latest connect() event of any client: what the Account Record held right then
    lastRes,      \* lastRes[a][p]: outcome of the latest connect() on that client since its last disconnect
    cache,        \* EmailStorage.db: cache[key] is the stored Email, or NoEmail
    imapBox,      \* the IMAP server: imapBox[folder] is the mailbox, a sequence of messages
    pop3Box,      \* the POP3 server: the maildrop, a sequence of messages
    emails,       \* the list load_emails returned last; the caller keeps it (AppState.emails)
    mmOp,         \* EmailManager: the operation that ran last
    mmFolder,     \* the folder argument of that call
    mmRemote,     \* how its remote step ended ("none" when it had none)
    mmStore,      \* how its cache accesses ended
    mmResult,     \* "Ok" or "Err": the Result it returned
    db,           \* EmailStorage.db as the storage calls see it: db[key string] is the value, or NoValue
    dbOp,         \* EmailStorage: the call that ran last
    dbKey,        \* the (account id, folder, id) it was called for
    dbEmail,      \* the email a store was called with
    dbOld,        \* the value its key held before the call
    dbRet,        \* "Ok" or "Err": the Result it returned
    dbFound,      \* the value a get_email found
    rmInput,      \* the lines the POP3 server sends, as texts
    rmBytes,      \* the same lines as the bytes on the connection
    rmPos,        \* how many of these bytes the reader has consumed
    rmLines,      \* read_multiline_response: `lines`
    rmPc,         \* read_multiline_response: "loop" while it reads, "returned" after Ok(lines)
    total_count,  \* Account.total_count of each account
    unread_count, \* Account.unread_count of each account
    p3Op,         \* Pop3Client: the operation called last
    p3Pc,         \* its position: the exchange it is at, or "returned"
    p3Log,        \* the commands it sent and the reply lines it got, in order
    p3Ret,        \* what it returned
    p3Limit,      \* fetch_emails: `limit`
    p3Count,      \* fetch_emails: `count`
    p3I,          \* fetch_emails: the loop variable `i`
    p3Got,        \* fetch_emails: `emails`
    p3StatForm,   \* the form of the positive STAT reply of the operation
    is_running,   \* ConnectionManager.is_running
    tasks,        \* the tasks start_background_checker has spawned, in spawn order
    cmPc,         \* start_background_checker: "spawn" between the flag and tokio::spawn
    cmOp,         \* ConnectionManager: the call made last
    cmSeen,       \* the flag that call found
    cmBefore,     \* the number of tasks spawned before that call
    acctIds,      \* Account.config.id of each Account Record, in the order of AccountManager.accounts
    cfg,          \* ConfigManager.config: the accounts and the default account, in memory
    saved,        \* the configuration file
    amArg,        \* add_account / update_account: `account_config`
    amBefore,     \* the in-memory state the account operation called last found
    amSaved,      \* how save_config ended in that operation ("none": not called)
    amFailures,   \* how many calls of save_config have failed so far
    lkProg,       \* lkProg[t]: the operation task t is in
    lkPc,         \* lkPc[t]: the statement of that operation task t is at
    lkHeld,       \* lkHeld[t]: the mutexes whose guard task t holds
    lkRet,        \* lkRet[t]: "Ok", or "Err" once `?` has ended the operation
    appRunning,   \* AppState.running
    account_arcs, \* AccountManager.accounts: the Arc of each Account Record
    imap_clients, \* AccountManager.imap_clients: each client with the Arc it is bound to
    pop3_clients, \* AccountManager.pop3_clients
    smtp_clients, \* AccountManager.smtp_clients
    arcs,         \* how many Account Records have been allocated
    lsCall        \* the operation of AccountManager called last, its index and its result

connVars == <<config, status, last_error, session, clientLock, fgOp, fgPc, fgIdx, fgK,
              fgAny, fgSeen, fgTrace, fgRet, hlPc, hlIdx, hlK, connEvent, lastRes>>

mailVars == <<cache, imapBox, pop3Box, emails, mmOp, mmFolder, mmRemote, mmStore, mmResult>>

storeVars == <<db, dbOp, dbKey, dbEmail, dbOld, dbRet, dbFound>>

\* the variables of the parts that are checked on their own
lineVars == <<rmInput, rmBytes, rmPos, rmLines, rmPc>>

wireVars == <<total_count, unread_count, p3Op, p3Pc, p3Log, p3Ret, p3Limit, p3Count, p3I,
              p3Got, p3StatForm>>

checkVars == <<is_running, tasks, cmPc, cmOp, cmSeen, cmBefore>>

\* the variables of the orchestrator's own state, apart from the connections
acctVars == <<acctIds, cfg, saved, amArg, amBefore, amSaved, amFailures>>

lockVars == <<lkProg, lkPc, lkHeld, lkRet, appRunning>>

listVars == <<account_arcs, imap_clients, pop3_clients, smtp_clients, arcs, lsCall>>

restVars == <<checkVars, acctVars, lockVars, listVars>>

sideVars == <<storeVars, lineVars, wireVars, restVars>>

vars == <<connVars, mailVars, sideVars>>

nonStoreVars == <<connVars, mailVars, lineVars, wireVars, restVars>>

nonLineVars == <<connVars, mailVars, storeVars, wireVars, restVars>>

\* everything but the background checker
appVars == <<connVars, mailVars, storeVars, lineVars, wireVars, acctVars, lockVars, listVars>>

fgLocals == <<fgOp, fgPc, fgIdx, fgK, fgAny, fgSeen, fgTrace, fgRet>>

hlLocals == <<hlPc, hlIdx, hlK>>

----------------------------------------------------------------------------
(* Account Record *)

\* Account::has_imap / has_pop3; get_smtp_config returns a reference, SMTP is mandatory
HasConfig(a, p) == IF p = "smtp" THEN TRUE ELSE config[a][p]

\* Account::new: all three statuses Disconnected
NewStatus == [p \in ProtoSet |-> "Disconnected"]

\* e.to_string() of the error a failed connect() returns
ErrText(p, res) ==
    IF res = "nocfg"
    THEN (CASE p = "imap" -> "IMAP is not configured for this account"
            [] p = "pop3" -> "POP3 is not configured for this account"
            [] OTHER      -> "unreachable")
    ELSE (CASE p = "imap" -> "imap connect error"
            [] p = "pop3" -> "pop3 connect error"
            [] OTHER      -> "smtp connect error")

NoEvent == [kind |-> "none", a |-> 0, p |-> "none", st |-> "none", le |-> "none"]

NoSeen == [p \in ProtoSet |-> "n/a"]

Call(p, res, sent, st) == [p |-> p, res |-> res, sent |-> sent, st |-> st]

----------------------------------------------------------------------------
(* Protocol Client: connect() *)

\* connect(), up to the point where the account lock is dropped: the caller holds
\* the client's mutex; without configuration the call returns the error at once
\* and writes nothing.
ClientConnectBegin(t, a, p) ==
    /\ clientLock[a][p] = "free"
    /\ IF HasConfig(a, p)
       THEN /\ status' = [status EXCEPT ![a][p] = "Connecting"]
            /\ clientLock' = [clientLock EXCEPT ![a][p] = t]
            /\ connEvent' = [kind |-> "started", a |-> a, p |-> p,
                             st |-> "Connecting", le |-> last_error[a]]
            /\ UNCHANGED lastRes
       ELSE /\ connEvent' = [kind |-> "err", a |-> a, p |-> p,
                             st |-> status[a][p], le |-> last_error[a]]
            /\ lastRes' = [lastRes EXCEPT ![a][p] = "err"]
            /\ UNCHANGED <<status, clientLock>>
    /\ UNCHANGED <<config, last_error, session>>

\* connect(), create_client / create_connection / test_connection succeeded: the
\* session is stored, then the status is set to Connected and last_error cleared.
\* The session is private to the client, whose mutex the caller still holds, so
\* no other task can tell the two writes apart.
ClientConnectOk(a, p) ==
    /\ session' = [session EXCEPT ![a][p] = "live"]
    /\ status' = [status EXCEPT ![a][p] = "Connected"]
    /\ last_error' = [last_error EXCEPT ![a] = "none"]
    /\ connEvent' = [kind |-> "ok", a |-> a, p |-> p, st |-> "Connected", le |-> "none"]
    /\ lastRes' = [lastRes EXCEPT ![a][p] = "ok"]
    /\ UNCHANGED config

\* connect(), the `?` after create_client / create_connection / test_connection
\* returns the error: nothing else is written.
ClientConnectErr(a, p) ==
    /\ connEvent' = [kind |-> "err", a |-> a, p |-> p,
                     st |-> status[a][p], le |-> last_error[a]]
    /\ lastRes' = [lastRes EXCEPT ![a][p] = "err"]
    /\ UNCHANGED <<config, status, last_error, session>>

(* Protocol Client: disconnect() *)

FarewellOutcomes == {"ok", "write_fails", "reply_fails"}

\* does disconnect() send a farewell: IMAP LOGOUT / POP3 QUIT when a session is held
SendsFarewell(a, p) == p # "smtp" /\ session[a][p] # "none"

\* does disconnect() return the error of the farewell: IMAP `session.logout()?`,
\* POP3 `send_command(QUIT)?` (the reply is read with `let _ =`)
FarewellErr(a, p, out) ==
    /\ SendsFarewell(a, p)
    /\ IF p = "imap" THEN out # "ok" ELSE out = "write_fails"

\* disconnect() dropping the session without writing the status
ClientDisconnectSessionOnly(a, p, out) ==
    IF FarewellErr(a, p, out)
    THEN UNCHANGED <<config, status, last_error, session, lastRes, connEvent>>
    ELSE /\ session' = [session EXCEPT ![a][p] = "none"]
         /\ lastRes' = [lastRes EXCEPT ![a][p] = "none"]
         /\ UNCHANGED <<config, status, last_error, connEvent>>

\* disconnect() with the farewell ending as `out`; the caller holds the client's mutex
ClientDisconnect(a, p, out) ==
    IF FarewellErr(a, p, out)
    THEN UNCHANGED <<config, status, last_error, session, lastRes, connEvent>>
    ELSE /\ session' = [session EXCEPT ![a][p] = "none"]
         /\ status' = [status EXCEPT ![a][p] = "Disconnected"]
         /\ lastRes' = [lastRes EXCEPT ![a][p] = "none"]
         /\ UNCHANGED <<config, last_error, connEvent>>

DisconnectResult(a, p, out) == IF FarewellErr(a, p, out) THEN "Err" ELSE "Ok"

----------------------------------------------------------------------------
(* Foreground task *)

FgIdle == fgOp = "idle"

FgReset ==
    /\ fgOp' = "idle"
    /\ fgPc' = "idle"
    /\ fgIdx' = 0
    /\ fgK' = 0
    /\ fgAny' = FALSE
    /\ fgSeen' = NoSeen
    /\ fgTrace' = <<>>
    /\ fgRet' = "none"

\* the caller takes the result of a finished operation
fg_return ==
    /\ fgPc = "done"
    /\ FgReset
    /\ UNCHANGED <<config, status, last_error, session, clientLock, connEvent, lastRes, hlLocals>>
    /\ UNCHANGED <<mailVars, sideVars>>

(* AccountManager::connect_account *)

\* connect_account without the has_imap / has_pop3 tests: every client is attempted
ConnectAccountAttemptsAlways(a, p) == TRUE

\* `if has_imap`, `if has_pop3`; SMTP is attempted without a test
ConnectAccountAttempts(a, p) == HasConfig(a, p)

\* the flag assigned from the latest attempt alone instead of being only ever set
AnyAfterLatest(any, res) == res = "ok"

\* `any_connection_successful = true` in the else branch of each `if let Err(e) = result`
AnyAfter(any, res) == any \/ res = "ok"

\* the value connect_account returns: Ok(any_connection_successful)
ConnectAccountResult(any) == IF any THEN "Ok(true)" ELSE "Ok(false)"

\* after protocol k of connect_account: the next protocol, or the return
ConnectAccountNext(any) ==
    IF fgK < Len(Protocols)
    THEN /\ fgK' = fgK + 1
         /\ fgPc' = "begin"
         /\ fgRet' = fgRet
    ELSE /\ fgK' = fgK
         /\ fgPc' = "done"
         /\ fgRet' = ConnectAccountResult(any)

\* connect_account(index): `if index >= self.accounts.len() { return Ok(false) }`
connect_account_call(i) ==
    /\ FgIdle
    /\ fgOp' = "connect_account"
    /\ fgIdx' = i
    /\ fgAny' = FALSE
    /\ fgTrace' = <<>>
    /\ fgSeen' = NoSeen
    /\ IF i \in Accounts
       THEN fgPc' = "begin" /\ fgK' = 1 /\ fgRet' = "none"
       ELSE fgPc' = "done" /\ fgK' = 0 /\ fgRet' = "Ok(false)"
    /\ UNCHANGED <<config, status, last_error, session, clientLock, connEvent, lastRes, hlLocals>>
    /\ UNCHANGED <<mailVars, sideVars>>

\* the has_imap / has_pop3 test and, when it passes, the client's mutex is taken
\* and connect() runs up to its network I/O
connect_account_begin ==
    /\ fgOp = "connect_account" /\ fgPc = "begin"
    /\ LET a == fgIdx
           p == Protocols[fgK]
       IN IF ConnectAccountAttempts(a, p)
          THEN /\ ClientConnectBegin("fg", a, p)
               /\ IF HasConfig(a, p)
                  THEN fgPc' = "io" /\ fgTrace' = fgTrace
                  ELSE /\ fgPc' = "handle"
                       /\ fgTrace' = Append(fgTrace, Call(p, "nocfg", FALSE, status[a][p]))
               /\ UNCHANGED <<fgOp, fgIdx, fgK, fgAny, fgSeen, fgRet>>
          ELSE /\ ConnectAccountNext(fgAny)
               /\ UNCHANGED <<fgOp, fgIdx, fgAny, fgSeen, fgTrace>>
               /\ UNCHANGED <<config, status, last_error, session, clientLock, connEvent, lastRes>>
    /\ UNCHANGED hlLocals
    /\ UNCHANGED <<mailVars, sideVars>>

\* connect() returns Ok: the mutex guard is dropped at the end of the block and
\* the else branch sets any_connection_successful
connect_account_connected ==
    /\ fgOp = "connect_account" /\ fgPc = "io"
    /\ LET a == fgIdx
           p == Protocols[fgK]
       IN /\ ClientConnectOk(a, p)
          /\ clientLock' = [clientLock EXCEPT ![a][p] = "free"]
          /\ fgTrace' = Append(fgTrace, Call(p, "ok", FALSE, "Connected"))
          /\ fgAny' = AnyAfter(fgAny, "ok")
          /\ ConnectAccountNext(AnyAfter(fgAny, "ok"))
    /\ UNCHANGED <<fgOp, fgIdx, fgSeen, hlLocals>>
    /\ UNCHANGED <<mailVars, sideVars>>

\* connect() returns Err: the mutex guard is dropped, the result is handled next
connect_account_refused ==
    /\ fgOp = "connect_account" /\ fgPc = "io"
    /\ LET a == fgIdx
           p == Protocols[fgK]
       IN /\ ClientConnectErr(a, p)
          /\ clientLock' = [clientLock EXCEPT ![a][p] = "free"]
          /\ fgTrace' = Append(fgTrace, Call(p, "err", FALSE, status[a][p]))
    /\ fgPc' = "handle"
    /\ UNCHANGED <<fgOp, fgIdx, fgK, fgAny, fgSeen, fgRet, hlLocals>>
    /\ UNCHANGED <<mailVars, sideVars>>

\* the error branch recording the text without the status
ConnectAccountOnErrTextOnly(a, p, res) ==
    /\ last_error' = [last_error EXCEPT ![a] = ErrText(p, res)]
    /\ UNCHANGED status

\* what `if let Err(e) = result` writes on the Account Record in connect_account
ConnectAccountOnErr(a, p, res) ==
    /\ status' = [status EXCEPT ![a][p] = "Failed"]
    /\ last_error' = [last_error EXCEPT ![a] = ErrText(p, res)]

\* `if let Err(e) = result { ... }` under the account lock
connect_account_handle ==
    /\ fgOp = "connect_account" /\ fgPc = "handle"
    /\ LET a == fgIdx
           p == Protocols[fgK]
       IN ConnectAccountOnErr(a, p, fgTrace[Len(fgTrace)].res)
    /\ fgAny' = AnyAfter(fgAny, "err")
    /\ ConnectAccountNext(AnyAfter(fgAny, "err"))
    /\ UNCHANGED <<config, session, clientLock, connEvent, lastRes>>
    /\ UNCHANGED <<fgOp, fgIdx, fgSeen, fgTrace, hlLocals>>
    /\ UNCHANGED <<mailVars, sideVars>>

(* AccountManager::retry_connections *)

\* retrying everything that is not Connected
RetryNeededUnlessConnected(a, p, st) == HasConfig(a, p) /\ st # "Connected"

\* `account_lock.has_imap() && account_lock.imap_status == ConnectionStatus::Failed`
\* (for SMTP the status test alone)
RetryNeeded(a, p, st) == HasConfig(a, p) /\ st = "Failed"

RetryNext ==
    IF fgK < Len(Protocols)
    THEN /\ fgK' = fgK + 1
         /\ fgPc' = "inspect"
         /\ fgRet' = fgRet
    ELSE /\ fgK' = fgK
         /\ fgPc' = "done"
         /\ fgRet' = "Ok"

\* retry_connections(index): `if index >= self.accounts.len() { return Ok(()) }`
retry_connections_call(i) ==
    /\ FgIdle
    /\ fgOp' = "retry_connections"
    /\ fgIdx' = i
    /\ fgAny' = FALSE
    /\ fgTrace' = <<>>
    /\ fgSeen' = NoSeen
    /\ IF i \in Accounts
       THEN fgPc' = "inspect" /\ fgK' = 1 /\ fgRet' = "none"
       ELSE fgPc' = "done" /\ fgK' = 0 /\ fgRet' = "Ok"
    /\ UNCHANGED <<config, status, last_error, session, clientLock, connEvent, lastRes, hlLocals>>
    /\ UNCHANGED <<mailVars, sideVars>>

\* retry_imap / retry_pop3 / retry_smtp is computed under the account lock
retry_connections_inspect ==
    /\ fgOp = "retry_connections" /\ fgPc = "inspect"
    /\ LET a == fgIdx
           p == Protocols[fgK]
       IN /\ fgSeen' = [fgSeen EXCEPT ![p] = status[a][p]]
          /\ IF RetryNeeded(a, p, status[a][p])
             THEN fgPc' = "begin" /\ fgK' = fgK /\ fgRet' = fgRet
             ELSE RetryNext
    /\ UNCHANGED <<config, status, last_error, session, clientLock, connEvent, lastRes>>
    /\ UNCHANGED <<fgOp, fgIdx, fgAny, fgTrace, hlLocals>>
    /\ UNCHANGED <<mailVars, sideVars>>

\* the client's mutex is taken and connect() runs up to its network I/O
retry_connections_begin ==
    /\ fgOp = "retry_connections" /\ fgPc = "begin"
    /\ LET a == fgIdx
           p == Protocols[fgK]
       IN /\ ClientConnectBegin("fg", a, p)
          /\ IF HasConfig(a, p)
             THEN fgPc' = "io" /\ fgTrace' = fgTrace
             ELSE /\ fgPc' = "handle"
                  /\ fgTrace' = Append(fgTrace, Call(p, "nocfg", FALSE, status[a][p]))
    /\ UNCHANGED <<fgOp, fgIdx, fgK, fgAny, fgSeen, fgRet, hlLocals>>
    /\ UNCHANGED <<mailVars, sideVars>>

\* connect() returns Ok: nothing more is written
retry_connections_connected ==
    /\ fgOp = "retry_connections" /\ fgPc = "io"
    /\ LET a == fgIdx
           p == Protocols[fgK]
       IN /\ ClientConnectOk(a, p)
          /\ clientLock' = [clientLock EXCEPT ![a][p] = "free"]
          /\ fgTrace' = Append(fgTrace, Call(p, "ok", FALSE, "Connected"))
    /\ RetryNext
    /\ UNCHANGED <<fgOp, fgIdx, fgAny, fgSeen, hlLocals>>
    /\ UNCHANGED <<mailVars, sideVars>>

\* connect() returns Err
retry_connections_refused ==
    /\ fgOp = "retry_connections" /\ fgPc = "io"
    /\ LET a == fgIdx
           p == Protocols[fgK]
       IN /\ ClientConnectErr(a, p)
          /\ clientLock' = [clientLock EXCEPT ![a][p] = "free"]
          /\ fgTrace' = Append(fgTrace, Call(p, "err", FALSE, status[a][p]))
    /\ fgPc' = "handle"
    /\ UNCHANGED <<fgOp, fgIdx, fgK, fgAny, fgSeen, fgRet, hlLocals>>
    /\ UNCHANGED <<mailVars, sideVars>>

\* what `if let Err(e) = result` writes on the Account Record in retry_connections:
\* last_error only
RetryOnErr(a, p, res) ==
    /\ last_error' = [last_error EXCEPT ![a] = ErrText(p, res)]
    /\ UNCHANGED status

retry_connections_handle ==
    /\ fgOp = "retry_connections" /\ fgPc = "handle"
    /\ LET a == fgIdx
           p == Protocols[fgK]
       IN RetryOnErr(a, p, fgTrace[Len(fgTrace)].res)
    /\ RetryNext
    /\ UNCHANGED <<config, session, clientLock, connEvent, lastRes>>
    /\ UNCHANGED <<fgOp, fgIdx, fgAny, fgSeen, fgTrace, hlLocals>>
    /\ UNCHANGED <<mailVars, sideVars>>

(* AccountManager::disconnect_all_clients *)

\* disconnect_all_clients: `for i in 0..self.accounts.len()`
disconnect_all_clients_call ==
    /\ FgIdle
    /\ fgOp' = "disconnect_all_clients"
    /\ fgAny' = FALSE
    /\ fgTrace' = <<>>
    /\ fgSeen' = NoSeen
    /\ IF AccountsLen > 0
       THEN fgPc' = "disconnect" /\ fgIdx' = 1 /\ fgK' = 1 /\ fgRet' = "none"
       ELSE fgPc' = "done" /\ fgIdx' = 0 /\ fgK' = 0 /\ fgRet' = "Ok"
    /\ UNCHANGED <<config, status, last_error, session, clientLock, connEvent, lastRes, hlLocals>>
    /\ UNCHANGED <<mailVars, sideVars>>

\* the mutex guards of one loop iteration: each `let mut client = ...lock().await`
\* shadows the one before, so all three are held until the iteration ends
LocksAfterDisconnect(a, p) ==
    IF fgK < Len(Protocols)
    THEN [clientLock EXCEPT ![a][p] = "fg"]
    ELSE [clientLock EXCEPT ![a] = [q \in ProtoSet |-> "free"]]

\* the loop giving up at the first disconnect() that returns an error
DisconnectAllStopsOnErr(res) == res = "Err"

\* `if let Err(e) = client.disconnect().await { error!(...) }`: the error is
\* logged and the loop goes on, whatever disconnect() returned
DisconnectAllStops(res) == FALSE

\* one client of account i: lock it, disconnect(), log the error if any
disconnect_all_clients_step ==
    /\ fgOp = "disconnect_all_clients" /\ fgPc = "disconnect"
    /\ LET a == fgIdx
           p == Protocols[fgK]
       IN /\ clientLock[a][p] = "free"
          /\ \E out \in FarewellOutcomes :
                /\ ClientDisconnect(a, p, out)
                /\ fgTrace' = Append(fgTrace,
                        Call(p, DisconnectResult(a, p, out), SendsFarewell(a, p), status'[a][p]))
                /\ IF DisconnectAllStops(DisconnectResult(a, p, out))
                   THEN /\ fgK' = fgK /\ fgIdx' = fgIdx /\ fgPc' = "done" /\ fgRet' = "Err"
                        /\ clientLock' = [clientLock EXCEPT ![a] = [q \in ProtoSet |-> "free"]]
                   ELSE /\ clientLock' = LocksAfterDisconnect(a, p)
                        /\ IF fgK < Len(Protocols)
                           THEN fgK' = fgK + 1 /\ fgIdx' = fgIdx /\ fgPc' = fgPc /\ fgRet' = fgRet
                           ELSE IF fgIdx < AccountsLen
                                THEN fgK' = 1 /\ fgIdx' = fgIdx + 1 /\ fgPc' = fgPc /\ fgRet' = fgRet
                                ELSE fgK' = fgK /\ fgIdx' = fgIdx /\ fgPc' = "done" /\ fgRet' = "Ok"
    /\ UNCHANGED <<fgOp, fgAny, fgSeen, hlLocals>>
    /\ UNCHANGED <<mailVars, sideVars>>

(* a caller of one Protocol Client: disconnect(), once or twice in a row *)

\* `client.lock().await` then `client.disconnect().await`
client_disconnect_call(a, p) ==
    /\ FgIdle
    /\ clientLock[a][p] = "free"
    /\ fgOp' = "disconnect"
    /\ fgPc' = "called"
    /\ fgIdx' = a
    /\ fgK' = CHOOSE k \in 1..Len(Protocols) : Protocols[k] = p
    /\ \E out \in FarewellOutcomes :
          /\ ClientDisconnect(a, p, out)
          /\ fgTrace' = <<Call(p, DisconnectResult(a, p, out), SendsFarewell(a, p), status'[a][p])>>
          /\ fgRet' = DisconnectResult(a, p, out)
    /\ clientLock' = [clientLock EXCEPT ![a][p] = "fg"]
    /\ UNCHANGED <<fgAny, fgSeen, hlLocals>>
    /\ UNCHANGED <<mailVars, sideVars>>

\* the same caller calls disconnect() again, still holding the client
client_disconnect_again ==
    /\ fgOp = "disconnect" /\ fgPc = "called" /\ Len(fgTrace) = 1
    /\ LET a == fgIdx
           p == Protocols[fgK]
       IN \E out \in FarewellOutcomes :
            /\ ClientDisconnect(a, p, out)
            /\ fgTrace' = Append(fgTrace,
                    Call(p, DisconnectResult(a, p, out), SendsFarewell(a, p), status'[a][p]))
            /\ fgRet' = DisconnectResult(a, p, out)
    /\ UNCHANGED <<clientLock, fgOp, fgPc, fgIdx, fgK, fgAny, fgSeen, hlLocals>>
    /\ UNCHANGED <<mailVars, sideVars>>

\* the caller drops the mutex guard
client_disconnect_done ==
    /\ fgOp = "disconnect" /\ fgPc = "called"
    /\ clientLock' = [clientLock EXCEPT ![fgIdx][Protocols[fgK]] = "free"]
    /\ fgPc' = "done"
    /\ UNCHANGED <<config, status, last_error, session, connEvent, lastRes>>
    /\ UNCHANGED <<fgOp, fgIdx, fgK, fgAny, fgSeen, fgTrace, fgRet, hlLocals>>
    /\ UNCHANGED <<mailVars, sideVars>>

(* a caller of one Protocol Client: fetch_emails / mark_as_read / send_email *)

\* `self.session.as_ref().ok_or_else(|| anyhow!("Not connected to ... server"))?`
\* and then the session is used
ClientUseResult(a, p) == IF session[a][p] = "none" THEN "NotConnected" ELSE "UsedSession"

\* fetch (IMAP, POP3), mutation (IMAP) or send (SMTP) on the client of (a, p)
client_use(a, p) ==
    /\ FgIdle
    /\ clientLock[a][p] = "free"
    /\ fgOp' = "use"
    /\ fgPc' = "done"
    /\ fgIdx' = a
    /\ fgK' = CHOOSE k \in 1..Len(Protocols) : Protocols[k] = p
    /\ fgTrace' = <<Call(p, lastRes[a][p], FALSE, status[a][p])>>
    /\ fgRet' = ClientUseResult(a, p)
    /\ UNCHANGED <<config, status, last_error, session, clientLock, connEvent, lastRes>>
    /\ UNCHANGED <<fgAny, fgSeen, hlLocals>>
    /\ UNCHANGED <<mailVars, sideVars>>

----------------------------------------------------------------------------
(* Health Loop: the task spawned by ConnectionManager::start_background_checker *)

\* what one pass does with a protocol whose status it has just read:
\* IMAP is probed when Connected and reconnected when Disconnected;
\* POP3 and SMTP are reconnected when Disconnected
HealthLoopBranch(a, p, st) ==
    IF ~HasConfig(a, p) THEN "skip"
    ELSE IF p = "imap" /\ st = "Connected" THEN "probe"
    ELSE IF st = "Disconnected" THEN "begin"
    ELSE "skip"

\* the next protocol, the next account, or the end of the pass (back to interval.tick())
HealthLoopAdvance ==
    IF hlK < Len(Protocols)
    THEN hlK' = hlK + 1 /\ hlIdx' = hlIdx /\ hlPc' = "check"
    ELSE IF hlIdx < AccountsLen
         THEN hlK' = 1 /\ hlIdx' = hlIdx + 1 /\ hlPc' = "check"
         ELSE hlK' = 0 /\ hlIdx' = 0 /\ hlPc' = "sleep"

\* interval.tick() fires and the running flag is set: `for i in 0..accounts.len()`
HealthLoop_tick ==
    /\ hlPc = "sleep"
    /\ AccountsLen > 0
    /\ hlPc' = "check" /\ hlIdx' = 1 /\ hlK' = 1
    /\ UNCHANGED <<config, status, last_error, session, clientLock, connEvent, lastRes, fgLocals>>
    /\ UNCHANGED <<mailVars, sideVars>>

\* has_imap / has_pop3 and the status are read under the account lock
HealthLoop_check ==
    /\ hlPc = "check"
    /\ LET a == hlIdx
           p == Protocols[hlK]
           b == HealthLoopBranch(a, p, status[a][p])
       IN IF b = "skip"
          THEN HealthLoopAdvance
          ELSE hlPc' = b /\ hlIdx' = hlIdx /\ hlK' = hlK
    /\ UNCHANGED <<config, status, last_error, session, clientLock, connEvent, lastRes, fgLocals>>
    /\ UNCHANGED <<mailVars, sideVars>>

\* ImapClient::is_connected: a read of account.imap_status
IsConnected(a, p) == status[a][p] = "Connected"

\* `let client = imap_client.lock().await; if !client.is_connected().await`
HealthLoop_probe ==
    /\ hlPc = "probe"
    /\ LET a == hlIdx
           p == Protocols[hlK]
       IN /\ clientLock[a][p] = "free"
          /\ IF IsConnected(a, p)
             THEN HealthLoopAdvance /\ UNCHANGED clientLock
             ELSE /\ hlPc' = "demote" /\ hlIdx' = hlIdx /\ hlK' = hlK
                  /\ clientLock' = [clientLock EXCEPT ![a][p] = "hl"]
    /\ UNCHANGED <<config, status, last_error, session, connEvent, lastRes, fgLocals>>
    /\ UNCHANGED <<mailVars, sideVars>>

\* `account_lock.imap_status = ConnectionStatus::Disconnected`, then the guard is dropped
HealthLoop_demote ==
    /\ hlPc = "demote"
    /\ LET a == hlIdx
           p == Protocols[hlK]
       IN /\ status' = [status EXCEPT ![a][p] = "Disconnected"]
          /\ clientLock' = [clientLock EXCEPT ![a][p] = "free"]
    /\ HealthLoopAdvance
    /\ UNCHANGED <<config, last_error, session, connEvent, lastRes, fgLocals>>
    /\ UNCHANGED <<mailVars, sideVars>>

\* `let mut client = ..._client.lock().await; client.connect()` up to its network I/O
HealthLoop_begin ==
    /\ hlPc = "begin"
    /\ ClientConnectBegin("hl", hlIdx, Protocols[hlK])
    /\ hlPc' = "io"
    /\ UNCHANGED <<hlIdx, hlK, fgLocals>>
    /\ UNCHANGED <<mailVars, sideVars>>

\* connect() returns Err: the error is logged, the guard is dropped
HealthLoop_refused ==
    /\ hlPc = "io"
    /\ LET a == hlIdx
           p == Protocols[hlK]
       IN /\ ClientConnectErr(a, p)
          /\ clientLock' = [clientLock EXCEPT ![a][p] = "free"]
    /\ HealthLoopAdvance
    /\ UNCHANGED fgLocals
    /\ UNCHANGED <<mailVars, sideVars>>

\* connect() returns Ok; the else branch still holds the client
HealthLoop_connected ==
    /\ hlPc = "io"
    /\ ClientConnectOk(hlIdx, Protocols[hlK])
    /\ hlPc' = "promote"
    /\ UNCHANGED <<clientLock, hlIdx, hlK, fgLocals>>
    /\ UNCHANGED <<mailVars, sideVars>>

\* `account_lock.imap_status = ConnectionStatus::Connected`, then the guard is dropped
HealthLoop_promote ==
    /\ hlPc = "promote"
    /\ LET a == hlIdx
           p == Protocols[hlK]
       IN /\ status' = [status EXCEPT ![a][p] = "Connected"]
          /\ clientLock' = [clientLock EXCEPT ![a][p] = "free"]
    /\ HealthLoopAdvance
    /\ UNCHANGED <<config, last_error, session, connEvent, lastRes, fgLocals>>
    /\ UNCHANGED <<mailVars, sideVars>>

----------------------------------------------------------------------------
(* Message, Cache (storage/mod.rs) and the two mail servers *)

\* the most messages the POP3 maildrop holds, and the largest `limit`
MaxMsgs == 2

Folders == {"INBOX", "Sent"}

\* Email.date: two timestamps, the later one is 2
Dates == {1, 2}

\* Email.id: the IMAP UID, or the Message-ID header of a POP3 message
Ids == {1, 2}

\* Account.config.id of the account at index a
AccountId(a) == a

\* models/email.rs Email, the fields the cache and the engine read
Email(id, acct, folder, date, read, flagged) ==
    [id |-> id, account_id |-> acct, folder |-> folder, date |-> date,
     is_read |-> read, is_flagged |-> flagged]

\* no value under a key (sled get returns None)
NoEmail == [id |-> 0, account_id |-> 0, folder |-> "none", date |-> 0,
            is_read |-> FALSE, is_flagged |-> FALSE]

\* format!("email:{}:{}:{}", account_id, folder, id) over strings given as
\* sequences of pieces: the three fields are joined with ":" and nothing marks
\* where one field ends
format_key(acct, folder, id) ==
    <<"email", ":">> \o acct \o <<":">> \o folder \o <<":">> \o id

\* the key of fields that are one piece each
Key(acct, folder, id) == format_key(<<acct>>, <<folder>>, <<id>>)

Keys == {Key(AccountId(a), f, i) : a \in Accounts, f \in Folders, i \in Ids}

EmptyCache == [k \in Keys |-> NoEmail]

\* EmailStorage::store_email: insert under the key made of the email's own fields
store_email(c, email) ==
    [c EXCEPT ![Key(email.account_id, email.folder, email.id)] = email]

\* EmailStorage::update_email: `self.store_email(email)`
update_email(c, email) == store_email(c, email)

\* EmailStorage::delete_email
delete_email_at(c, acct, folder, id) == [c EXCEPT ![Key(acct, folder, id)] = NoEmail]

\* EmailStorage::get_email: Some(email) or None
get_email(c, acct, folder, id) == c[Key(acct, folder, id)]

RECURSIVE InsertByDate(_, _)
\* place e after every element whose date is >= e.date: one step of a stable
\* sort with the comparator `b.date.cmp(&a.date)`
InsertByDate(sorted, e) ==
    IF sorted = <<>> THEN <<e>>
    ELSE IF Head(sorted).date >= e.date
         THEN <<Head(sorted)>> \o InsertByDate(Tail(sorted), e)
         ELSE <<e>> \o sorted

RECURSIVE SortNewestFirst(_)
\* emails.sort_by(|a, b| b.date.cmp(&a.date)): stable, newest first
SortNewestFirst(list) ==
    IF list = <<>> THEN <<>>
    ELSE InsertByDate(SortNewestFirst(SubSeq(list, 1, Len(list) - 1)), list[Len(list)])

RECURSIVE ScanPrefix(_, _, _, _)
\* db.scan_prefix("email:<acct>:<folder>:"): the stored values in key order
ScanPrefix(c, acct, folder, ids) ==
    IF ids = {} THEN <<>>
    ELSE LET i == CHOOSE x \in ids : \A y \in ids : x <= y
         IN (IF c[Key(acct, folder, i)] = NoEmail THEN <<>> ELSE <<c[Key(acct, folder, i)]>>)
            \o ScanPrefix(c, acct, folder, ids \ {i})

\* the stored values as the scan yields them, in key order
get_emailsKeyOrder(c, acct, folder) == ScanPrefix(c, acct, folder, Ids)

\* EmailStorage::get_emails
get_emails(c, acct, folder) == SortNewestFirst(ScanPrefix(c, acct, folder, Ids))

RECURSIVE StoreAll(_, _, _, _)
\* `for email in &fetched_emails { if let Err(e) = self.storage.store_email(email) {..} }`:
\* the stores run in list order, the ones at the positions in `failing` fail and
\* are only logged
StoreAll(c, list, failing, i) ==
    IF i > Len(list) THEN c
    ELSE StoreAll(IF i \in failing THEN c ELSE store_email(c, list[i]), list, failing, i + 1)

\* a message on a server: its UID or Message-ID and its Date header
Msg(id, date) == [id |-> id, date |-> date]

\* the last `limit` messages of a mailbox of N messages:
\* IMAP `exists - limit + 1 : exists` or `1:*`; POP3 `for i in start..count`
Window(box, limit) ==
    IF Len(box) > limit THEN SubSeq(box, Len(box) - limit + 1, Len(box)) ELSE box

\* the FLAGS the IMAP server reports for the messages of one FETCH, as
\* <<\Seen, \Flagged>> per position; other sessions of the mailbox change them too
Flags(n) == [1..n -> BOOLEAN \X BOOLEAN]

\* ImapClient::fetch_emails: parse each message with the mailbox as its folder,
\* take the flags and the UID from the server, sort newest first
ImapFetch(a, folder, limit, flags) ==
    LET w == Window(imapBox[folder], limit)
    IN SortNewestFirst([i \in 1..Len(w) |->
            Email(w[i].id, AccountId(a), folder, w[i].date, flags[i][1], flags[i][2])])

\* Pop3Client::fetch_emails: Email::parse_from_raw(&raw_data, &account_id, "INBOX"),
\* the id is the Message-ID header, the flags keep the defaults of Email::new
Pop3Fetch(a, limit) ==
    LET w == Window(pop3Box, limit)
    IN SortNewestFirst([i \in 1..Len(w) |->
            Email(w[i].id, AccountId(a), "INBOX", w[i].date, FALSE, FALSE)])

\* the mailboxes an IMAP server holds here: empty or one message under any UID;
\* lists of several messages come from the POP3 maildrop
ImapBoxes == {<<>>} \cup {<<Msg(i, d)>> : i \in Ids, d \in Dates}

\* the maildrops a POP3 server can hold: Message-IDs may repeat
Pop3Boxes ==
    UNION {[1..n -> {Msg(i, d) : i \in Ids, d \in Dates}] : n \in 0..MaxMsgs}

----------------------------------------------------------------------------
(* EmailStorage over key strings (storage/mod.rs) *)

\* the account ids, folder names and message ids the storage is called with:
\* any text, the separator of the key format included
StoredAccounts == {<<"a">>}
StoredFolders == {<<"f">>, <<"f", ":", "g">>}
StoredIds == {<<"h">>, <<"g", ":", "h">>}

Triples == StoredAccounts \X StoredFolders \X StoredIds

\* the (account id, folder, id) an email carries
TripleOf(email) == <<email.account_id, email.folder, email.id>>

DbKeys == {format_key(t[1], t[2], t[3]) : t \in Triples}

StoredEmails == {Email(t[3], t[1], t[2], d, FALSE, FALSE) : t \in Triples, d \in Dates}

\* sled `get` finding nothing under a key
NoValue == Email(<<>>, <<>>, <<>>, 0, FALSE, FALSE)

\* the outcomes of the two sled calls of a write: `insert(..)?` / `remove(..)?`,
\* then `flush()?`
WriteOutcomes == {"ok", "write_fails", "flush_fails"}

\* sled insert keeping the value a key already holds
db_insertIfAbsent(d, key, value) == IF d[key] = NoValue THEN [d EXCEPT ![key] = value] ELSE d

\* self.db.insert(key.as_bytes(), value): the value under the key is replaced
db_insert(d, key, value) == [d EXCEPT ![key] = value]

\* self.db.remove(key.as_bytes())
db_remove(d, key) == [d EXCEPT ![key] = NoValue]

\* EmailStorage::store_email(email)
storage_store(op, email, out) ==
    LET key == format_key(email.account_id, email.folder, email.id)
    IN /\ db' = IF out = "write_fails" THEN db ELSE db_insert(db, key, email)
       /\ dbOp' = op
       /\ dbKey' = TripleOf(email)
       /\ dbEmail' = email
       /\ dbOld' = db[key]
       /\ dbRet' = IF out = "ok" THEN "Ok" ELSE "Err"
       /\ dbFound' = NoValue
       /\ UNCHANGED nonStoreVars

storage_store_email(email, out) == storage_store("store_email", email, out)

\* EmailStorage::update_email(email): `self.store_email(email)`
storage_update_email(email, out) == storage_store("update_email", email, out)

\* EmailStorage::get_email(account_id, folder, email_id): Ok(Some(email)),
\* Ok(None), or the error of the read
storage_get_email(t, readOk) ==
    LET key == format_key(t[1], t[2], t[3])
    IN /\ dbOp' = "get_email"
       /\ dbKey' = t
       /\ dbEmail' = NoValue
       /\ dbOld' = db[key]
       /\ dbRet' = IF readOk THEN "Ok" ELSE "Err"
       /\ dbFound' = IF readOk THEN db[key] ELSE NoValue
       /\ UNCHANGED db
       /\ UNCHANGED nonStoreVars

\* EmailStorage::delete_email(account_id, folder, email_id)
storage_delete_email(t, out) ==
    LET key == format_key(t[1], t[2], t[3])
    IN /\ db' = IF out = "write_fails" THEN db ELSE db_remove(db, key)
       /\ dbOp' = "delete_email"
       /\ dbKey' = t
       /\ dbEmail' = NoValue
       /\ dbOld' = db[key]
       /\ dbRet' = IF out = "ok" THEN "Ok" ELSE "Err"
       /\ dbFound' = NoValue
       /\ UNCHANGED nonStoreVars

\* EmailStorage::new: the database is opened; here it is empty
StoreQuiet ==
    /\ db = [k \in DbKeys |-> NoValue]
    /\ dbOp = "none"
    /\ dbKey = <<>>
    /\ dbEmail = NoValue
    /\ dbOld = NoValue
    /\ dbRet = "none"
    /\ dbFound = NoValue

StoreNext ==
    \/ \E email \in StoredEmails, out \in WriteOutcomes : storage_store_email(email, out)
    \/ \E email \in StoredEmails, out \in WriteOutcomes : storage_update_email(email, out)
    \/ \E t \in Triples, readOk \in BOOLEAN : storage_get_email(t, readOk)
    \/ \E t \in Triples, out \in WriteOutcomes : storage_delete_email(t, out)


----------------------------------------------------------------------------
(* POP3 multi-line responses: Pop3Client::read_multiline_response (protocols/pop3.rs) *)

\* the longest response body, in lines, that the server sends here
MaxLines == 3

CRLF == <<"CR", "LF">>

\* the texts of the lines a server sends: empty, the lone dot, dot-stuffed lines,
\* lines that begin with one dot, plain lines
LineTexts ==
    {<<>>, <<".">>, <<".", ".">>, <<".", "h">>, <<".", ".", "h">>, <<".", ".", ".">>, <<"h">>}

\* the responses: up to MaxLines lines of any text, then the terminating "." line
\* (a lone dot among the lines ends the response earlier, the rest is what the
\* server sends next)
Responses ==
    UNION {{body \o <<<<".">>>> : body \in [1..n -> LineTexts]} : n \in 0..MaxLines}

RECURSIVE Encode(_)
\* the bytes on the wire: every line followed by CR LF
Encode(lines) ==
    IF lines = <<>> THEN <<>> ELSE Head(lines) \o CRLF \o Encode(Tail(lines))

RECURSIVE read_line(_, _)
\* reader.read_line(&mut line): the bytes after position pos up to and including
\* the next LF, or up to the end of the stream (nothing at the end of the stream)
read_line(bytes, pos) ==
    IF pos >= Len(bytes) THEN <<>>
    ELSE IF bytes[pos + 1] = "LF" THEN <<"LF">>
    ELSE <<bytes[pos + 1]>> \o read_line(bytes, pos + 1)

\* `if line.ends_with("\r\n") { line.truncate(line.len() - 2); }`
StripCRLF(line) ==
    IF Len(line) >= 2 /\ SubSeq(line, Len(line) - 1, Len(line)) = CRLF
    THEN SubSeq(line, 1, Len(line) - 2)
    ELSE line

\* byte-stuffing undone for every line that begins with a dot
UnstuffAnyDot(line) ==
    IF Len(line) >= 1 /\ line[1] = "." THEN Tail(line) ELSE line

\* `if line.starts_with("..") { line.remove(0); }`
Unstuff(line) ==
    IF Len(line) >= 2 /\ line[1] = "." /\ line[2] = "." THEN Tail(line) ELSE line

\* how many turns at the end of the stream are followed here
MaxEofTurns == 2

\* `if line == "." { break; }`: nothing else ends the loop (an Err of read_line
\* apart; the end of the stream is Ok(0) and leaves `line` empty)
TurnEnds(raw, line) == line = <<".">>

\* one turn of the `loop` of read_multiline_response: read a line, strip CR LF,
\* break on ".", otherwise undo the stuffing and push the line
read_multiline_response_turn ==
    /\ rmPc = "loop"
    /\ Len(rmLines) < MaxLines + MaxEofTurns
    /\ LET raw  == read_line(rmBytes, rmPos)
           line == StripCRLF(raw)
       IN /\ rmPos' = rmPos + Len(raw)
          /\ IF TurnEnds(raw, line)
             THEN /\ rmPc' = "returned"
                  /\ UNCHANGED rmLines
             ELSE /\ rmLines' = Append(rmLines, Unstuff(line))
                  /\ UNCHANGED rmPc
    /\ UNCHANGED <<rmInput, rmBytes>>
    /\ UNCHANGED nonLineVars

\* no response is being read
LineQuiet ==
    /\ rmInput = <<>>
    /\ rmBytes = <<>>
    /\ rmPos = 0
    /\ rmLines = <<>>
    /\ rmPc = "idle"

\* read_multiline_response is called on a connection on which a response arrives
LineStart ==
    /\ rmInput \in Responses
    /\ rmBytes = Encode(rmInput)
    /\ rmPos = 0
    /\ rmLines = <<>>
    /\ rmPc = "loop"

\* the streams that end before a line equal to "." has been sent: up to MaxLines
\* lines, none of them the lone dot, the last one with or without its CR LF
CutBodies ==
    UNION {[1..n -> LineTexts \ {<<".">>}] : n \in 0..MaxLines}

CutBytes(body) ==
    {Encode(body)} \cup
    (IF body = <<>> THEN {} ELSE {SubSeq(Encode(body), 1, Len(Encode(body)) - Len(CRLF))})

\* read_multiline_response is called on a connection that the server closes
\* before the end of the response, or on one on which a whole response arrives
StreamStart ==
    /\ \/ rmInput \in Responses /\ rmBytes = Encode(rmInput)
       \/ rmInput \in CutBodies /\ rmBytes \in CutBytes(rmInput)
    /\ rmPos = 0
    /\ rmLines = <<>>
    /\ rmPc = "loop"

LineNext == read_multiline_response_turn

----------------------------------------------------------------------------
(* POP3 client on the wire: Pop3Client (protocols/pop3.rs) *)

\* the account the engine and the client are called for (AppState.selected_account)
Sel == CHOOSE a \in Accounts : TRUE

\* the largest maildrop, and the largest limit, of the POP3 sessions
MaxDrop == 3

\* the maildrops of the POP3 sessions: message number i carries Message-ID i and
\* any date
Maildrops ==
    UNION {{[i \in 1..n |-> Msg(i, dates[i])] : dates \in [1..n -> Dates]} : n \in 0..MaxDrop}

\* a reply line that begins with +OK
Positive == "+OK"

\* reply lines that do not begin with +OK: an -ERR line, and the empty line that
\* read_line leaves when the server has closed the stream
NegativeReplies == {"-ERR", ""}

Replies == {Positive} \cup NegativeReplies

\* how the exchange of one command can end: the write fails, the read fails, or
\* a reply line arrives
Exchanges == {"write_fails", "read_fails"} \cup Replies

\* the forms of a positive STAT reply: "+OK <count> <size>", fewer than three
\* words, or a second word that is no number
StatForms == {"counted", "short", "unparsable"}

\* what follows a positive RETR reply: a message that parses, one that does not,
\* or a failing read
Bodies == {"parsed", "unparsable", "read_fails"}

\* entries of the log of one operation: a command sent, a reply line got, and
\* for the lines of a message how parsing them ended
Sent(cmd, arg) == [dir |-> "sent", cmd |-> cmd, arg |-> arg, reply |-> "none"]
Got(cmd, arg, reply) == [dir |-> "got", cmd |-> cmd, arg |-> arg, reply |-> reply]

\* what an operation returns: Ok, or the error with its message and the reply
\* line the message ends with
NoRet == [kind |-> "none", msg |-> <<"none", "none">>, text |-> "none"]
RetOk == [kind |-> "Ok", msg |-> <<"none", "none">>, text |-> "none"]
RetErr(msg, text) == [kind |-> "Err", msg |-> msg, text |-> text]

\* the error of a failed read or write (`?` on the io::Error)
IoErr == RetErr(<<"none", "io">>, "none")

P3Idle == p3Pc \in {"idle", "returned"}

\* the log after one exchange of `cmd`: nothing when the write failed, the
\* command when the read failed, the command and the reply otherwise
LogAfter(log, cmd, arg, out) ==
    IF out = "write_fails" THEN log
    ELSE IF out = "read_fails" THEN Append(log, Sent(cmd, arg))
    ELSE log \o <<Sent(cmd, arg), Got(cmd, arg, out)>>

\* the operation returns r
P3Return(r) ==
    /\ p3Pc' = "returned"
    /\ p3Ret' = r

\* the variables of the connection orchestration and of the engine that the POP3
\* client on its own leaves alone
wireFrame == <<clientLock, fgLocals, hlLocals, connEvent, lastRes,
               cache, imapBox, pop3Box, emails, mmOp, mmFolder, mmRemote, mmStore, mmResult,
               storeVars, lineVars, restVars>>

\* connect(): the configuration check and `pop3_status = Connecting`
pop3_connect_call ==
    /\ P3Idle
    /\ p3Op' = "connect"
    /\ p3Log' = <<>>
    /\ IF HasConfig(Sel, "pop3")
       THEN /\ status' = [status EXCEPT ![Sel]["pop3"] = "Connecting"]
            /\ p3Pc' = "tcp"
            /\ p3Ret' = NoRet
       ELSE /\ P3Return(RetErr(<<"none", "POP3 is not configured for this account">>, "none"))
            /\ UNCHANGED status
    /\ p3StatForm' = "none"
    /\ UNCHANGED <<total_count, unread_count, p3Limit, p3Count, p3I, p3Got>>
    /\ UNCHANGED <<config, last_error, session>>
    /\ UNCHANGED wireFrame

\* create_connection: TcpStream::connect and the TLS handshake
pop3_connect_tcp(ok) ==
    /\ p3Op = "connect" /\ p3Pc = "tcp"
    /\ IF ok THEN p3Pc' = "greeting" /\ UNCHANGED p3Ret ELSE P3Return(IoErr)
    /\ UNCHANGED <<total_count, unread_count, p3Op, p3Log, p3Limit, p3Count, p3I, p3Got, p3StatForm>>
    /\ UNCHANGED <<config, status, last_error, session>>
    /\ UNCHANGED wireFrame

\* create_connection: the greeting is read
pop3_connect_greeting(out) ==
    /\ p3Op = "connect" /\ p3Pc = "greeting"
    /\ out # "write_fails"
    /\ p3Log' = IF out = "read_fails" THEN p3Log ELSE Append(p3Log, Got("greeting", 0, out))
    /\ IF out = "read_fails" THEN P3Return(IoErr)
       ELSE IF out # Positive THEN P3Return(RetErr(<<"greeting", "Invalid POP3 greeting">>, out))
       ELSE p3Pc' = "USER" /\ UNCHANGED p3Ret
    /\ UNCHANGED <<total_count, unread_count, p3Op, p3Limit, p3Count, p3I, p3Got, p3StatForm>>
    /\ UNCHANGED <<config, status, last_error, session>>
    /\ UNCHANGED wireFrame

\* STAT sent right after USER
AfterCommandStat(cmd) == "STAT"

\* the command create_connection sends after `cmd` was answered with +OK
AfterCommand(cmd) == IF cmd = "USER" THEN "PASS" ELSE "STAT"

\* create_connection: USER and PASS, each sent and answered
pop3_connect_login(out) ==
    /\ p3Op = "connect" /\ p3Pc \in {"USER", "PASS"}
    /\ p3Log' = LogAfter(p3Log, p3Pc, 0, out)
    /\ IF out \in {"write_fails", "read_fails"} THEN P3Return(IoErr)
       ELSE IF out # Positive THEN P3Return(RetErr(<<p3Pc, "command failed">>, out))
       ELSE p3Pc' = AfterCommand(p3Pc) /\ UNCHANGED p3Ret
    /\ UNCHANGED <<total_count, unread_count, p3Op, p3Limit, p3Count, p3I, p3Got, p3StatForm>>
    /\ UNCHANGED <<config, status, last_error, session>>
    /\ UNCHANGED wireFrame

\* the unread count left at zero
UnreadAfterStatNone(count) == 0

\* `account.unread_count = count; // POP3 doesn't track read status`
UnreadAfterStat(count) == count

\* create_connection: STAT; the counts are taken from a reply of three words
\* whose second is a number; then connect() stores the connection, sets
\* Connected and clears last_error
pop3_connect_stat(out, form) ==
    /\ p3Op = "connect" /\ p3Pc = "STAT"
    /\ out # Positive => form = "counted"
    /\ p3Log' = LogAfter(p3Log, "STAT", 0, out)
    /\ IF out \in {"write_fails", "read_fails"}
       THEN /\ P3Return(IoErr)
            /\ UNCHANGED <<total_count, unread_count, status, last_error, session>>
       ELSE IF out # Positive
       THEN /\ P3Return(RetErr(<<"STAT", "command failed">>, out))
            /\ UNCHANGED <<total_count, unread_count, status, last_error, session>>
       ELSE /\ P3Return(RetOk)
            /\ IF form = "counted"
               THEN /\ total_count' = [total_count EXCEPT ![Sel] = Len(pop3Box)]
                    /\ unread_count' = [unread_count EXCEPT ![Sel] = UnreadAfterStat(Len(pop3Box))]
               ELSE UNCHANGED <<total_count, unread_count>>
            /\ session' = [session EXCEPT ![Sel]["pop3"] = "live"]
            /\ status' = [status EXCEPT ![Sel]["pop3"] = "Connected"]
            /\ last_error' = [last_error EXCEPT ![Sel] = "none"]
    /\ p3StatForm' = IF out = Positive THEN form ELSE "none"
    /\ UNCHANGED <<p3Op, p3Limit, p3Count, p3I, p3Got>>
    /\ UNCHANGED config
    /\ UNCHANGED wireFrame

\* fetch_emails(limit): the connection check
pop3_fetch_call(limit) ==
    /\ P3Idle
    /\ p3Op' = "fetch_emails"
    /\ p3Log' = <<>>
    /\ p3Limit' = limit
    /\ p3Got' = <<>>
    /\ p3Count' = 0
    /\ p3I' = 0
    /\ p3StatForm' = "none"
    /\ IF session[Sel]["pop3"] = "none"
       THEN P3Return(RetErr(<<"none", "Not connected to POP3 server">>, "none"))
       ELSE p3Pc' = "STAT" /\ p3Ret' = NoRet
    /\ UNCHANGED <<total_count, unread_count>>
    /\ UNCHANGED <<config, status, last_error, session>>
    /\ UNCHANGED wireFrame

\* the loop starting at the first message
FetchStartFirst(count, limit) == 0

\* `let start = if count > limit { count - limit } else { 0 }`
FetchStart(count, limit) == IF count > limit THEN count - limit ELSE 0

\* fetch_emails: STAT; a reply of fewer than three words or without a number is
\* an error; the counts are written, the loop starts at `start`
pop3_fetch_stat(out, form) ==
    /\ p3Op = "fetch_emails" /\ p3Pc = "STAT"
    /\ out # Positive => form = "counted"
    /\ p3Log' = LogAfter(p3Log, "STAT", 0, out)
    /\ p3StatForm' = IF out = Positive THEN form ELSE "none"
    /\ IF out \in {"write_fails", "read_fails"}
       THEN /\ P3Return(IoErr)
            /\ UNCHANGED <<total_count, unread_count, p3Count, p3I>>
       ELSE IF out # Positive
       THEN /\ P3Return(RetErr(<<"STAT", "command failed">>, out))
            /\ UNCHANGED <<total_count, unread_count, p3Count, p3I>>
       ELSE IF form = "short"
       THEN /\ P3Return(RetErr(<<"STAT", "Invalid STAT response">>, out))
            /\ UNCHANGED <<total_count, unread_count, p3Count, p3I>>
       ELSE IF form = "unparsable"
       THEN /\ P3Return(RetErr(<<"none", "invalid digit found in string">>, "none"))
            /\ UNCHANGED <<total_count, unread_count, p3Count, p3I>>
       ELSE /\ total_count' = [total_count EXCEPT ![Sel] = Len(pop3Box)]
            /\ unread_count' = [unread_count EXCEPT ![Sel] = UnreadAfterStat(Len(pop3Box))]
            /\ p3Count' = Len(pop3Box)
            /\ p3I' = FetchStart(Len(pop3Box), p3Limit)
            /\ p3Pc' = "RETR"
            /\ UNCHANGED p3Ret
    /\ UNCHANGED <<p3Op, p3Limit, p3Got>>
    /\ UNCHANGED <<config, status, last_error, session>>
    /\ UNCHANGED wireFrame

\* what a negative RETR reply does: `error!(..); continue;`
RetrRefused(n, out) == NoRet

\* fetch_emails: one turn of `for i in start..count`: RETR i+1, the reply, the
\* message lines, Email::parse_from_raw with folder "INBOX"
pop3_fetch_retr(out, body) ==
    /\ p3Op = "fetch_emails" /\ p3Pc = "RETR"
    /\ p3I < p3Count
    /\ out # Positive => body = "parsed"
    /\ LET n    == p3I + 1
           fail == IF out \in {"write_fails", "read_fails"} THEN IoErr
                   ELSE IF out # Positive THEN RetrRefused(n, out)
                   ELSE IF body = "read_fails" THEN IoErr
                   ELSE NoRet
       IN /\ p3Log' = LogAfter(p3Log, "RETR", n, out)
                      \o (IF out = Positive /\ body # "read_fails"
                          THEN <<Got("body", n, body)>> ELSE <<>>)
          /\ IF fail # NoRet
             THEN /\ P3Return(fail)
                  /\ UNCHANGED <<p3I, p3Got>>
             ELSE /\ p3I' = n
                  /\ p3Got' = IF out = Positive /\ body = "parsed"
                              THEN Append(p3Got, Email(pop3Box[n].id, AccountId(Sel), "INBOX",
                                                       pop3Box[n].date, FALSE, FALSE))
                              ELSE p3Got
                  /\ UNCHANGED <<p3Pc, p3Ret>>
    /\ UNCHANGED <<total_count, unread_count, p3Op, p3Limit, p3Count, p3StatForm>>
    /\ UNCHANGED <<config, status, last_error, session>>
    /\ UNCHANGED wireFrame

\* fetch_emails: after the loop the list is sorted newest first and returned
pop3_fetch_return ==
    /\ p3Op = "fetch_emails" /\ p3Pc = "RETR"
    /\ p3I = p3Count
    /\ p3Got' = SortNewestFirst(p3Got)
    /\ P3Return(RetOk)
    /\ UNCHANGED <<total_count, unread_count, p3Op, p3Log, p3Limit, p3Count, p3I, p3StatForm>>
    /\ UNCHANGED <<config, status, last_error, session>>
    /\ UNCHANGED wireFrame

\* delete_email(message_number): the connection check, DELE and its reply
pop3_delete_email(n, out) ==
    /\ P3Idle
    /\ p3Op' = "delete_email"
    /\ p3StatForm' = "none"
    /\ IF session[Sel]["pop3"] = "none"
       THEN /\ out = Positive
            /\ p3Log' = <<>>
            /\ P3Return(RetErr(<<"none", "Not connected to POP3 server">>, "none"))
       ELSE /\ p3Log' = LogAfter(<<>>, "DELE", n, out)
            /\ IF out \in {"write_fails", "read_fails"} THEN P3Return(IoErr)
               ELSE IF out # Positive THEN P3Return(RetErr(<<"DELE", "command failed">>, out))
               ELSE P3Return(RetOk)
    /\ UNCHANGED <<total_count, unread_count, p3Limit, p3Count, p3I, p3Got>>
    /\ UNCHANGED <<config, status, last_error, session>>
    /\ UNCHANGED wireFrame

\* ImapClient::fetch_emails on the same Account Record: total_count is the
\* EXISTS of the mailbox, unread_count the number of UNSEEN messages (left as it
\* is when the search fails); it has a session only where IMAP is configured;
\* the mailbox here holds MaxDrop messages, none or all of them unseen
imap_fetch_counts(exists, unseen, searchOk) ==
    /\ P3Idle
    /\ HasConfig(Sel, "imap")
    /\ unseen <= exists
    /\ total_count' = [total_count EXCEPT ![Sel] = exists]
    /\ unread_count' = IF searchOk THEN [unread_count EXCEPT ![Sel] = unseen] ELSE unread_count
    /\ UNCHANGED <<p3Op, p3Pc, p3Log, p3Ret, p3Limit, p3Count, p3I, p3Got, p3StatForm>>
    /\ UNCHANGED <<config, status, last_error, session>>
    /\ UNCHANGED wireFrame

\* Account::new: no message counted; no POP3 operation has run
WireQuiet ==
    /\ total_count = [a \in Accounts |-> 0]
    /\ unread_count = [a \in Accounts |-> 0]
    /\ p3Op = "none"
    /\ p3Pc = "idle"
    /\ p3Log = <<>>
    /\ p3Ret = NoRet
    /\ p3Limit = 0
    /\ p3Count = 0
    /\ p3I = 0
    /\ p3Got = <<>>
    /\ p3StatForm = "none"

WireNext ==
    \/ pop3_connect_call
    \/ \E ok \in BOOLEAN : pop3_connect_tcp(ok)
    \/ \E out \in Exchanges : pop3_connect_greeting(out)
    \/ \E out \in Exchanges : pop3_connect_login(out)
    \/ \E out \in Exchanges, form \in StatForms : pop3_connect_stat(out, form)
    \/ \E limit \in 0..MaxDrop : pop3_fetch_call(limit)
    \/ \E out \in Exchanges, form \in StatForms : pop3_fetch_stat(out, form)
    \/ \E out \in Exchanges, body \in Bodies : pop3_fetch_retr(out, body)
    \/ pop3_fetch_return
    \/ \E n \in 1..Len(pop3Box), out \in Exchanges : pop3_delete_email(n, out)
    \/ \E unseen \in {0, MaxDrop}, searchOk \in BOOLEAN :
          imap_fetch_counts(MaxDrop, unseen, searchOk)

----------------------------------------------------------------------------
(* ConnectionManager: the background checker (controller/connection_manager.rs) *)

\* how many tasks tokio::spawn may create in one behaviour
MaxTasks == 3

\* a spawned task: where it is, and the account index `i` of its pass
Task(pc, i) == [pc |-> pc, i |-> i]

\* is the spawned task still alive
Alive(t) == t.pc # "exited"

\* `if *is_running { return Ok(()); }` taken on every call
StartProceedsAlways(running) == TRUE

\* start_background_checker goes on to spawn unless the flag is already set
StartProceeds(running) == ~running

\* start_background_checker, the part under the is_running mutex: the early
\* return, or `*is_running = true; drop(is_running)`
start_background_checker_call ==
    /\ cmPc = "idle"
    /\ Len(tasks) < MaxTasks
    /\ cmOp' = "start"
    /\ cmSeen' = is_running
    /\ cmBefore' = Len(tasks)
    /\ IF StartProceeds(is_running)
       THEN is_running' = TRUE /\ cmPc' = "spawn"
       ELSE is_running' = is_running /\ cmPc' = "idle"
    /\ UNCHANGED tasks
    /\ UNCHANGED appVars

\* start_background_checker, `tokio::spawn(async move { ... })` and `Ok(())`:
\* the new task waits for the first tick of its interval
start_background_checker_spawn ==
    /\ cmPc = "spawn"
    /\ tasks' = Append(tasks, Task("tick", 0))
    /\ cmPc' = "idle"
    /\ UNCHANGED <<is_running, cmOp, cmSeen, cmBefore>>
    /\ UNCHANGED appVars

\* stop_background_checker: `*is_running = false`; any task may call it, at any time
stop_background_checker ==
    /\ is_running' = FALSE
    /\ cmOp' = "stop"
    /\ cmSeen' = is_running
    /\ cmBefore' = Len(tasks)
    /\ UNCHANGED <<tasks, cmPc>>
    /\ UNCHANGED appVars

\* the loop going on with a pass whatever the flag says
WakeBreaksNever(running) == FALSE

\* `let running = *is_running.lock().await; if !running { break; }`
WakeBreaks(running) == ~running

\* interval.tick() completes in task t: the flag is read, and the task either
\* leaves the loop or starts `for i in 0..accounts.len()`
checker_wake(t) ==
    /\ tasks[t].pc = "tick"
    /\ tasks' = [tasks EXCEPT ![t] =
                    IF WakeBreaks(is_running) THEN Task("exited", 0)
                    ELSE IF AccountsLen > 0 THEN Task("pass", 1)
                    ELSE Task("tick", 0)]
    /\ UNCHANGED <<is_running, cmPc, cmOp, cmSeen, cmBefore>>
    /\ UNCHANGED appVars

\* task t finishes the body of the for loop for account i (the body itself is
\* the pass of the Health Loop above) and goes to the next account or back to
\* interval.tick()
checker_pass(t) ==
    /\ tasks[t].pc = "pass"
    /\ tasks' = [tasks EXCEPT ![t] =
                    IF tasks[t].i < AccountsLen THEN Task("pass", tasks[t].i + 1)
                    ELSE Task("tick", 0)]
    /\ UNCHANGED <<is_running, cmPc, cmOp, cmSeen, cmBefore>>
    /\ UNCHANGED appVars

\* ConnectionManager::new: `is_running: Arc::new(Mutex::new(false))`, no task spawned
CheckerQuiet ==
    /\ is_running = FALSE
    /\ tasks = <<>>
    /\ cmPc = "idle"
    /\ cmOp = "none"
    /\ cmSeen = FALSE
    /\ cmBefore = 0

CheckerNext ==
    \/ start_background_checker_call
    \/ start_background_checker_spawn
    \/ stop_background_checker
    \/ \E t \in 1..Len(tasks) : checker_wake(t)
    \/ \E t \in 1..Len(tasks) : checker_pass(t)

----------------------------------------------------------------------------
(* AccountManager: add_account, update_account, delete_account                 *)
(* (state/account_manager.rs) over the configuration of ConfigManager.  In this *)
(* part the account list grows and shrinks: config, status, last_error,        *)
(* session, clientLock and lastRes are sequences indexed like                  *)
(* AccountManager.accounts.                                                    *)

\* how many accounts AccountManager holds at most in one behaviour
MaxAccounts == 2

\* EmailAccount.id as the user typed it; two accounts may carry the same id
AccountIds == 1..MaxAccounts

\* config::EmailAccount: the id, and whether imap / pop3 is Some
EmailAccount(id, imap, pop3) == [id |-> id, imap |-> imap, pop3 |-> pop3]

\* the account_config arguments: accounts with both retrieval protocols
AccountConfigs == {EmailAccount(id, TRUE, TRUE) : id \in AccountIds}

\* no account_config argument
NoAccountArg == [id |-> 0, imap |-> FALSE, pop3 |-> FALSE]

\* Account.config of Account::new(account_config), as HasConfig reads it
ConfigOf(ac) == [imap |-> ac.imap, pop3 |-> ac.pop3]

\* Option<String> of settings.default_account: the empty set is None
DefaultAccounts == {{}} \cup {{id} : id \in AccountIds}

\* AppConfig: the accounts and settings.default_account
AppConfig(accounts, default) == [accounts |-> accounts, default |-> default]

\* a configuration file that std::fs::write left half written
Torn == [accounts |-> <<>>, default |-> {0}]

\* save_config: serialise, then std::fs::write, which truncates the file before
\* it writes
SaveOutcomes == {"ok", "open_fails", "write_fails"}

\* how many calls of save_config fail at most in one behaviour
MaxSaveFailures == 1

\* the outcomes save_config can still have
SaveMayEnd == IF amFailures < MaxSaveFailures THEN SaveOutcomes ELSE {"ok"}

\* the count of failed saves after one more call ending as `out`
FailuresAfter(out) == IF out = "ok" THEN amFailures ELSE amFailures + 1

\* the file after save_config of configuration c ending as `out`
SavedAfter(c, out) ==
    IF out = "ok" THEN c
    ELSE IF out = "write_fails" THEN Torn
    ELSE saved

\* Vec::remove(index), 1-based here
Remove(seq, i) == [k \in 1..(Len(seq) - 1) |-> IF k < i THEN seq[k] ELSE seq[k + 1]]

\* the in-memory state of the orchestrator, and the default account, as a call finds them
Mem == [ids |-> acctIds, config |-> config, status |-> status, session |-> session,
        default |-> cfg.default]

AccountOps == {"add_account", "update_account", "delete_account"}

\* what the account operations leave alone
amFrame == <<hlLocals, connEvent, mailVars, storeVars, lineVars, wireVars, checkVars, lockVars, listVars>>

\* the same with the default account of the configuration c the call is given
MemWith(c) == [Mem EXCEPT !.default = c.default]

\* add_account called with a ConfigManager whose configuration is c:
\* `config.accounts.push(account_config.clone())` and `config_manager.save_config()?`
AddAccountSave(c, ac, out) ==
    /\ FgIdle
    /\ Len(acctIds) < MaxAccounts
    /\ Len(c.accounts) < MaxAccounts
    /\ fgOp' = "add_account" /\ fgIdx' = 0 /\ fgK' = 0
    /\ fgAny' = FALSE /\ fgSeen' = NoSeen /\ fgTrace' = <<>>
    /\ amArg' = ac
    /\ amBefore' = MemWith(c)
    /\ cfg' = [c EXCEPT !.accounts = Append(@, ac)]
    /\ saved' = SavedAfter(cfg', out)
    /\ amSaved' = out
    /\ amFailures' = FailuresAfter(out)
    /\ IF out = "ok"
       THEN fgPc' = "push" /\ fgRet' = "none"
       ELSE fgPc' = "done" /\ fgRet' = "Err"
    /\ UNCHANGED <<acctIds, config, status, last_error, session, clientLock, lastRes>>
    /\ UNCHANGED amFrame

\* add_account on the ConfigManager the caller keeps from call to call
add_account_save(ac, out) == AddAccountSave(cfg, ac, out)

\* add_account: Account::new, three fresh clients, the four pushes, Ok(())
add_account_push ==
    /\ fgOp = "add_account" /\ fgPc = "push"
    /\ acctIds' = Append(acctIds, amArg.id)
    /\ config' = Append(config, ConfigOf(amArg))
    /\ status' = Append(status, NewStatus)
    /\ last_error' = Append(last_error, "none")
    /\ session' = Append(session, [p \in ProtoSet |-> "none"])
    /\ clientLock' = Append(clientLock, [p \in ProtoSet |-> "free"])
    /\ lastRes' = Append(lastRes, [p \in ProtoSet |-> "none"])
    /\ fgPc' = "done" /\ fgRet' = "Ok"
    /\ UNCHANGED <<fgOp, fgIdx, fgK, fgAny, fgSeen, fgTrace>>
    /\ UNCHANGED <<cfg, saved, amArg, amBefore, amSaved, amFailures>>
    /\ UNCHANGED amFrame

\* update_account called with a ConfigManager whose configuration is c: the
\* index test, `*existing_config = account_config.clone()` (or the return when
\* the configuration has no such entry) and `config_manager.save_config()?`
UpdateAccountSave(c, i, ac, out) ==
    /\ FgIdle
    /\ fgOp' = "update_account" /\ fgIdx' = i
    /\ fgAny' = FALSE /\ fgSeen' = NoSeen /\ fgTrace' = <<>>
    /\ amArg' = ac
    /\ amBefore' = MemWith(c)
    /\ IF i > Len(acctIds) \/ i > Len(c.accounts)
       THEN /\ fgPc' = "done" /\ fgRet' = "Ok" /\ fgK' = 0
            /\ amSaved' = "none"
            /\ cfg' = c
            /\ UNCHANGED <<saved, amFailures>>
       ELSE /\ cfg' = [c EXCEPT !.accounts[i] = ac]
            /\ saved' = SavedAfter(cfg', out)
            /\ amSaved' = out
            /\ amFailures' = FailuresAfter(out)
            /\ IF out = "ok"
               THEN fgPc' = "disconnect" /\ fgRet' = "none" /\ fgK' = 1
               ELSE fgPc' = "done" /\ fgRet' = "Err" /\ fgK' = 0
    /\ UNCHANGED <<acctIds, config, status, last_error, session, clientLock, lastRes>>
    /\ UNCHANGED amFrame

\* update_account on the ConfigManager the caller keeps from call to call
update_account_save(i, ac, out) == UpdateAccountSave(cfg, i, ac, out)

\* where update_account and delete_account go on after the third disconnect()
AfterDisconnects(op) == IF op = "update_account" THEN "replace" ELSE "save"

\* update_account / delete_account: one of the three blocks
\* `let mut client = ..._client.lock().await; if let Err(e) = client.disconnect().await`
account_disconnect_step ==
    /\ fgOp \in {"update_account", "delete_account"} /\ fgPc = "disconnect"
    /\ LET a == fgIdx
           p == Protocols[fgK]
       IN /\ clientLock[a][p] = "free"
          /\ \E out \in FarewellOutcomes :
                /\ ClientDisconnect(a, p, out)
                /\ fgTrace' = Append(fgTrace,
                        Call(p, DisconnectResult(a, p, out), SendsFarewell(a, p), status'[a][p]))
    /\ IF fgK < Len(Protocols)
       THEN fgK' = fgK + 1 /\ fgPc' = fgPc
       ELSE fgK' = fgK /\ fgPc' = AfterDisconnects(fgOp)
    /\ UNCHANGED <<fgOp, fgIdx, fgAny, fgSeen, fgRet, clientLock>>
    /\ UNCHANGED <<acctIds, cfg, saved, amArg, amBefore, amSaved, amFailures>>
    /\ UNCHANGED <<hlLocals, mailVars, storeVars, lineVars, wireVars, checkVars, lockVars, listVars>>

\* update_account: `*account_lock = Account::new(account_config)`; the three
\* clients stay in their lists as they are
update_account_replace ==
    /\ fgOp = "update_account" /\ fgPc = "replace"
    /\ acctIds' = [acctIds EXCEPT ![fgIdx] = amArg.id]
    /\ config' = [config EXCEPT ![fgIdx] = ConfigOf(amArg)]
    /\ status' = [status EXCEPT ![fgIdx] = NewStatus]
    /\ last_error' = [last_error EXCEPT ![fgIdx] = "none"]
    /\ fgPc' = "done" /\ fgRet' = "Ok"
    /\ UNCHANGED <<fgOp, fgIdx, fgK, fgAny, fgSeen, fgTrace>>
    /\ UNCHANGED <<session, clientLock, lastRes, cfg, saved, amArg, amBefore, amSaved, amFailures>>
    /\ UNCHANGED amFrame

\* delete_account called with a ConfigManager whose configuration is c: the
\* index test and `account_lock.config.id.clone()`
DeleteAccountCall(c, i) ==
    /\ FgIdle
    /\ fgOp' = "delete_account" /\ fgIdx' = i
    /\ fgAny' = FALSE /\ fgSeen' = NoSeen /\ fgTrace' = <<>>
    /\ amArg' = NoAccountArg
    /\ amBefore' = MemWith(c)
    /\ amSaved' = "none"
    /\ cfg' = c
    /\ IF i > Len(acctIds)
       THEN fgPc' = "done" /\ fgRet' = "Ok" /\ fgK' = 0
       ELSE fgPc' = "disconnect" /\ fgRet' = "none" /\ fgK' = 1
    /\ UNCHANGED <<acctIds, config, status, last_error, session, clientLock, lastRes, saved, amFailures>>
    /\ UNCHANGED amFrame

\* delete_account on the ConfigManager the caller keeps from call to call
delete_account_call(i) == DeleteAccountCall(cfg, i)

\* the default account left alone by delete_account
DefaultAfterDeleteKept(default, id) == default

\* `if let Some(default_id) = &config.settings.default_account { if default_id ==
\* &account_id { config.settings.default_account = None; } }`
DefaultAfterDelete(default, id) == IF id \in default THEN {} ELSE default

\* delete_account: `config.accounts.remove(index)` (which panics when the
\* configuration has no such entry), the default account, `save_config()?`
delete_account_save(out) ==
    /\ fgOp = "delete_account" /\ fgPc = "save"
    /\ IF fgIdx > Len(cfg.accounts)
       THEN /\ fgPc' = "done" /\ fgRet' = "panic"
            /\ UNCHANGED <<cfg, saved, amSaved, amFailures>>
       ELSE /\ cfg' = AppConfig(Remove(cfg.accounts, fgIdx),
                                DefaultAfterDelete(cfg.default, acctIds[fgIdx]))
            /\ saved' = SavedAfter(cfg', out)
            /\ amSaved' = out
            /\ amFailures' = FailuresAfter(out)
            /\ IF out = "ok"
               THEN fgPc' = "remove" /\ fgRet' = "none"
               ELSE fgPc' = "done" /\ fgRet' = "Err"
    /\ UNCHANGED <<fgOp, fgIdx, fgK, fgAny, fgSeen, fgTrace, amArg, amBefore>>
    /\ UNCHANGED <<acctIds, config, status, last_error, session, clientLock, lastRes>>
    /\ UNCHANGED amFrame

\* delete_account: the four `remove(index)` and Ok(())
delete_account_remove ==
    /\ fgOp = "delete_account" /\ fgPc = "remove"
    /\ acctIds' = Remove(acctIds, fgIdx)
    /\ config' = Remove(config, fgIdx)
    /\ status' = Remove(status, fgIdx)
    /\ last_error' = Remove(last_error, fgIdx)
    /\ session' = Remove(session, fgIdx)
    /\ clientLock' = Remove(clientLock, fgIdx)
    /\ lastRes' = Remove(lastRes, fgIdx)
    /\ fgPc' = "done" /\ fgRet' = "Ok"
    /\ UNCHANGED <<fgOp, fgIdx, fgK, fgAny, fgSeen, fgTrace>>
    /\ UNCHANGED <<cfg, saved, amArg, amBefore, amSaved, amFailures>>
    /\ UNCHANGED amFrame

\* the caller takes the result of a finished account operation
account_return ==
    /\ fgOp \in AccountOps /\ fgPc = "done"
    /\ FgReset
    /\ amArg' = NoAccountArg
    /\ amBefore' = Mem
    /\ amSaved' = "none"
    /\ UNCHANGED <<acctIds, config, status, last_error, session, clientLock, lastRes, cfg, saved, amFailures>>
    /\ UNCHANGED amFrame

\* connect_account(a) between two account operations, with every connect()
\* returning Ok: each client stores its session, every status is Connected,
\* last_error is None
account_connected(a) ==
    /\ FgIdle
    /\ \A p \in ProtoSet : HasConfig(a, p) /\ clientLock[a][p] = "free"
    /\ session' = [session EXCEPT ![a] = [p \in ProtoSet |-> "live"]]
    /\ status' = [status EXCEPT ![a] = [p \in ProtoSet |-> "Connected"]]
    /\ last_error' = [last_error EXCEPT ![a] = "none"]
    /\ UNCHANGED <<config, connEvent, lastRes>>
    /\ UNCHANGED <<clientLock, fgLocals, hlLocals>>
    /\ UNCHANGED <<acctIds, cfg, saved, amArg, amBefore, amSaved, amFailures>>
    /\ UNCHANGED <<mailVars, storeVars, lineVars, wireVars, checkVars, lockVars, listVars>>

\* the index arguments: the valid ones and one with index >= accounts.len()
AccountIndices == 1..(Len(acctIds) + 1)

\* load_accounts of the configuration the other parts run with: the accounts of
\* `config`, saved as they are, no default account
AccountsQuiet ==
    /\ acctIds = [a \in Accounts |-> AccountId(a)]
    /\ cfg = AppConfig([a \in Accounts |-> EmailAccount(AccountId(a), config[a].imap, config[a].pop3)], {})
    /\ saved = cfg
    /\ amArg = NoAccountArg
    /\ amBefore = Mem
    /\ amSaved = "none"
    /\ amFailures = 0

\* AppState.config_manager: main stores in AppState::new what ConfigManager::new
\* loaded, and nothing assigns to it afterwards.  Here the configuration file
\* held one account, which is the default account.
StateConfig == AppConfig(<<EmailAccount(1, TRUE, TRUE)>>, {1})

\* AppController::save_account_form for a new account: add_account on
\* `state.config_manager.clone()`
save_account_form_new(ac, out) == AddAccountSave(StateConfig, ac, out)

\* AppController::save_account_form for the selected account: update_account on
\* `state.config_manager.clone()`
save_account_form_update(i, ac, out) == UpdateAccountSave(StateConfig, i, ac, out)

\* AppController::delete_selected_account: delete_account on
\* `state.config_manager.clone()`
delete_selected_account_call(i) == DeleteAccountCall(StateConfig, i)

\* the account operations as AppController calls them
ControllerNext ==
    \/ \E ac \in AccountConfigs, out \in SaveMayEnd : save_account_form_new(ac, out)
    \/ add_account_push
    \/ \E i \in AccountIndices, ac \in AccountConfigs, out \in SaveMayEnd :
          save_account_form_update(i, ac, out)
    \/ account_disconnect_step
    \/ update_account_replace
    \/ \E i \in AccountIndices : delete_selected_account_call(i)
    \/ \E out \in SaveMayEnd : delete_account_save(out)
    \/ delete_account_remove
    \/ account_return
    \/ \E a \in 1..Len(acctIds) : account_connected(a)

AccountsNext ==
    \/ \E ac \in AccountConfigs, out \in SaveMayEnd : add_account_save(ac, out)
    \/ add_account_push
    \/ \E i \in AccountIndices, ac \in AccountConfigs, out \in SaveMayEnd :
          update_account_save(i, ac, out)
    \/ account_disconnect_step
    \/ update_account_replace
    \/ \E i \in AccountIndices : delete_account_call(i)
    \/ \E out \in SaveMayEnd : delete_account_save(out)
    \/ delete_account_remove
    \/ \E a \in 1..Len(acctIds) : account_connected(a)
    \/ account_return

\* the orchestrator's own state after construction
----------------------------------------------------------------------------
(* The locks (tokio::sync::Mutex) and the tasks that take them.

   Every operation is written as the sequence of the lock acquisitions, the
   guard drops, the network exchanges and the plain work it performs, in the
   order of the source; `line` is the line of the statement.  A guard that
   goes out of scope is an unlock at the line where its scope ends.  A tokio
   Mutex is not re-entrant: lock().await completes only when no task, the
   caller included, holds the mutex. *)

Mutexes == {"AppState", "AccountManager", "EmailManager", "Account", "ImapClient",
            "Session", "Connection"}

Tasks == {"main", "worker"}

Lock(m, line) == [op |-> "lock", lock |-> m, line |-> line, net |-> FALSE, fails |-> FALSE, err |-> 0]

Unlock(m, line) == [op |-> "unlock", lock |-> m, line |-> line, net |-> FALSE, fails |-> FALSE, err |-> 0]

\* plain work on values the task holds
Work(line) == [op |-> "do", lock |-> "none", line |-> line, net |-> FALSE, fails |-> FALSE, err |-> 0]

\* work that can end in Err, which `?` returns to the caller
Fallible(line) == [op |-> "do", lock |-> "none", line |-> line, net |-> FALSE, fails |-> TRUE, err |-> 0]

\* an exchange with a server; its Err is returned with `?` (err = 0) or handled
\* by the caller, which goes on at instruction `err`
NetIo(line, err) == [op |-> "do", lock |-> "none", line |-> line, net |-> TRUE, fails |-> TRUE, err |-> err]

\* ImapClient::connect with create_client
imap_connect ==
    << Lock("Account", 39), Work(42), Unlock("Account", 51),
       NetIo(79, 0), NetIo(86, 0), NetIo(89, 0),
       Lock("Account", 92), Work(93), Unlock("Account", 99),
       Lock("Account", 60), Work(61), Unlock("Account", 65) >>

\* ImapClient::fetch_emails
imap_fetch_emails ==
    << Lock("Session", 132), NetIo(135, 0),
       Lock("Account", 139), Work(140), NetIo(143, 0), Work(144), Unlock("Account", 145),
       NetIo(154, 0),
       Lock("Account", 158), Work(160), Unlock("Account", 187), Unlock("Session", 187) >>

\* Pop3Client::fetch_emails, with one message to retrieve
pop3_fetch_emails ==
    << Lock("Connection", 294), NetIo(297, 0), NetIo(298, 0),
       Lock("Account", 313), Work(314), Unlock("Account", 317),
       NetIo(333, 0), NetIo(334, 0), NetIo(341, 0), Work(344),
       Unlock("Connection", 359) >>

\* SmtpClient::connect
smtp_connect ==
    << Lock("Account", 42), Work(48), Unlock("Account", 49),
       Fallible(52), NetIo(55, 0),
       Lock("Account", 61), Work(62), Unlock("Account", 66) >>

\* SmtpClient::send_email: from_email and from_name borrow from the guard
smtp_send_email ==
    << Lock("Account", 123), Work(128), NetIo(271, 0), Unlock("Account", 274) >>

\* App::handle_emails_input, Enter on an unread message of a connected IMAP
\* account, with ImapClient::mark_as_read
handle_emails_input ==
    << Lock("Account", 540), Work(542), Lock("ImapClient", 544),
       Lock("Session", 201), NetIo(204, 7), NetIo(207, 7), Unlock("Session", 210),
       Work(548), Unlock("ImapClient", 562), Unlock("Account", 562) >>

ClientPrograms == {"imap_connect", "imap_fetch_emails", "pop3_fetch_emails", "smtp_connect",
                   "smtp_send_email", "handle_emails_input"}

\* AppController::load_accounts
load_accounts ==
    << Lock("AppState", 60), Work(61), Unlock("AppState", 62),
       Lock("AccountManager", 65), Fallible(66),
       Lock("AppState", 70), Work(71), Unlock("AppState", 82), Unlock("AccountManager", 82) >>

\* AppController::load_emails, an account being selected
controller_load_emails ==
    << Lock("AppState", 116), Work(117), Unlock("AppState", 118),
       Lock("AccountManager", 122), Work(123),
       Lock("EmailManager", 129), NetIo(130, 0),
       Lock("AppState", 139), Work(140),
       Unlock("AppState", 145), Unlock("EmailManager", 145), Unlock("AccountManager", 146) >>

\* AppController::connect_selected_account, the connection succeeding
connect_selected_account ==
    << Lock("AppState", 91), Work(92), Unlock("AppState", 93),
       Lock("AccountManager", 97), NetIo(98, 0) >>
    \o controller_load_emails \o << Unlock("AccountManager", 104) >>

\* AppController::retry_connections
retry_connections ==
    << Lock("AppState", 158), Work(159), Unlock("AppState", 160),
       Lock("AccountManager", 164), NetIo(165, 0) >>
    \o controller_load_emails \o << Unlock("AccountManager", 169) >>

\* AppController::mark_email_as_read
mark_email_as_read ==
    << Lock("AppState", 195), Work(196), Unlock("AppState", 204),
       Lock("AccountManager", 208), Work(209),
       Lock("EmailManager", 213), NetIo(214, 0),
       Lock("AppState", 217), Work(218),
       Unlock("AppState", 228), Unlock("EmailManager", 228), Unlock("AccountManager", 229) >>

\* AppController::create_account_form
create_account_form ==
    << Lock("AppState", 239), Work(240), Unlock("AppState", 244) >>

\* AppController::save_account_form, for a new account
save_account_form ==
    << Lock("AppState", 252), Work(253), Unlock("AppState", 254),
       Lock("AppState", 270), Work(271), Unlock("AppState", 272),
       Lock("AccountManager", 275), Fallible(278),
       Lock("AppState", 294), Work(295), Unlock("AppState", 308), Unlock("AccountManager", 308) >>

\* AppController::delete_selected_account
delete_selected_account ==
    << Lock("AppState", 317), Work(318), Unlock("AppState", 319),
       Lock("AppState", 324), Work(325), Unlock("AppState", 326),
       Lock("AccountManager", 329), NetIo(330, 0),
       Lock("AppState", 334), Work(335), Unlock("AppState", 349), Unlock("AccountManager", 349) >>

\* AppController::shutdown with disconnect_all_clients and close_storage
shutdown ==
    << Lock("AccountManager", 179), NetIo(180, 0), Unlock("AccountManager", 183),
       Lock("AppState", 362), Fallible(363), Lock("EmailManager", 366), Fallible(367),
       Unlock("EmailManager", 370), Unlock("AppState", 370),
       Lock("AppState", 386), Work(387), Unlock("AppState", 390) >>

\* main: `while app_state.lock().await.is_running()`
loop_head == << Lock("AppState", 72), Work(72), Unlock("AppState", 72) >>

\* main: the draw and the wait for a key
draw == << Lock("AppState", 74), Work(75), Unlock("AppState", 80), Work(83) >>

\* main: `let mut state = app_state.lock().await` and handle_key with that guard,
\* which is dropped at the end of the `if let`
HandleKey(body) == << Lock("AppState", 84) >> \o body \o << Unlock("AppState", 89) >>

\* the AppController operations handle_key invokes
Operations == {"connect_selected_account", "load_emails", "retry_connections",
               "mark_email_as_read", "create_account_form", "save_account_form",
               "delete_selected_account"}

\* the same operations called by a task that holds no guard (AppController is
\* shared as an Arc, its operations take &self)
Direct(op) == "AppController::" \o op

ControllerPrograms == {Direct(op) : op \in Operations}

WorkerPrograms == ClientPrograms \cup ControllerPrograms

\* the keys: one per operation, Ctrl+Q, and a key that only changes the selection
KeyEvents == Operations \cup {"quit", "select"}

Code(name) ==
    CASE name = "imap_connect" -> imap_connect
      [] name = "imap_fetch_emails" -> imap_fetch_emails
      [] name = "pop3_fetch_emails" -> pop3_fetch_emails
      [] name = "smtp_connect" -> smtp_connect
      [] name = "smtp_send_email" -> smtp_send_email
      [] name = "handle_emails_input" -> handle_emails_input
      [] name = "initialize" -> load_accounts
      [] name = "loop_head" -> loop_head
      [] name = "draw" -> draw
      [] name = "shutdown" -> shutdown
      [] name = "quit" -> HandleKey(<< Work(42) >>)
      [] name = "select" -> HandleKey(<< Work(74) >>)
      [] name = "connect_selected_account" -> HandleKey(connect_selected_account)
      [] name = "load_emails" -> HandleKey(controller_load_emails)
      [] name = "retry_connections" -> HandleKey(retry_connections)
      [] name = "mark_email_as_read" -> HandleKey(mark_email_as_read)
      [] name = "create_account_form" -> HandleKey(create_account_form)
      [] name = "save_account_form" -> HandleKey(save_account_form)
      [] name = "delete_selected_account" -> HandleKey(delete_selected_account)
      [] name = Direct("connect_selected_account") -> connect_selected_account
      [] name = Direct("load_emails") -> controller_load_emails
      [] name = Direct("retry_connections") -> retry_connections
      [] name = Direct("mark_email_as_read") -> mark_email_as_read
      [] name = Direct("create_account_form") -> create_account_form
      [] name = Direct("save_account_form") -> save_account_form
      [] name = Direct("delete_selected_account") -> delete_selected_account
      [] OTHER -> << >>

\* the instruction task t is at, if it is inside a program
Running(t) == lkPc[t] \in 1..Len(Code(lkProg[t]))

Instr(t) == Code(lkProg[t])[lkPc[t]]

HeldBySome(m) == \E u \in Tasks : m \in lkHeld[u]

lkFrame == <<connVars, mailVars, storeVars, lineVars, wireVars, checkVars, acctVars, listVars>>

\* lock().await completes
task_lock(t) ==
    /\ Running(t)
    /\ Instr(t).op = "lock"
    /\ ~HeldBySome(Instr(t).lock)
    /\ lkHeld' = [lkHeld EXCEPT ![t] = @ \cup {Instr(t).lock}]
    /\ lkPc' = [lkPc EXCEPT ![t] = @ + 1]
    /\ UNCHANGED <<lkProg, lkRet, appRunning, lkFrame>>

\* a guard is dropped
task_unlock(t) ==
    /\ Running(t)
    /\ Instr(t).op = "unlock"
    /\ lkHeld' = [lkHeld EXCEPT ![t] = @ \ {Instr(t).lock}]
    /\ lkPc' = [lkPc EXCEPT ![t] = @ + 1]
    /\ UNCHANGED <<lkProg, lkRet, appRunning, lkFrame>>

\* Ctrl+Q: state.set_running(false)
RunningAfter(t) == IF lkProg[t] = "quit" /\ Instr(t).line = 42 THEN FALSE ELSE appRunning

\* a statement that is no lock operation completes with Ok
task_do(t) ==
    /\ Running(t)
    /\ Instr(t).op = "do"
    /\ lkPc' = [lkPc EXCEPT ![t] = @ + 1]
    /\ appRunning' = RunningAfter(t)
    /\ UNCHANGED <<lkProg, lkHeld, lkRet, lkFrame>>

\* it ends in Err: the caller handles it, or `?` returns it and every guard of
\* the operation is dropped
task_fail(t) ==
    /\ Running(t)
    /\ Instr(t).op = "do"
    /\ Instr(t).fails
    /\ IF Instr(t).err > 0
       THEN /\ lkPc' = [lkPc EXCEPT ![t] = Instr(t).err]
            /\ UNCHANGED <<lkHeld, lkRet>>
       ELSE /\ lkPc' = [lkPc EXCEPT ![t] = Len(Code(lkProg[t])) + 1]
            /\ lkHeld' = [lkHeld EXCEPT ![t] = {}]
            /\ lkRet' = [lkRet EXCEPT ![t] = "Err"]
    /\ UNCHANGED <<lkProg, appRunning, lkFrame>>

Finished(t) == lkPc[t] = Len(Code(lkProg[t])) + 1

Start(t, name) ==
    /\ lkProg' = [lkProg EXCEPT ![t] = name]
    /\ lkPc' = [lkPc EXCEPT ![t] = 1]
    /\ lkRet' = [lkRet EXCEPT ![t] = "Ok"]

\* main goes on after initialize: `?` ends main on Err
main_after_initialize ==
    /\ lkProg["main"] = "initialize"
    /\ Finished("main")
    /\ IF lkRet["main"] = "Err"
       THEN lkProg' = [lkProg EXCEPT !["main"] = "exited"] /\ UNCHANGED <<lkPc, lkRet>>
       ELSE Start("main", "loop_head")
    /\ UNCHANGED <<lkHeld, appRunning, lkFrame>>

\* the loop condition has been read
main_loop_test ==
    /\ lkProg["main"] = "loop_head"
    /\ Finished("main")
    /\ Start("main", IF appRunning THEN "draw" ELSE "shutdown")
    /\ UNCHANGED <<lkHeld, appRunning, lkFrame>>

\* wait_for_key returned Some(key)
main_key(k) ==
    /\ lkProg["main"] = "draw"
    /\ Finished("main")
    /\ Start("main", k)
    /\ UNCHANGED <<lkHeld, appRunning, lkFrame>>

\* wait_for_key returned None after the polling interval, or handle_key
\* returned (its Err is printed): the next iteration
main_next_iteration ==
    /\ lkProg["main"] \in KeyEvents \cup {"draw"}
    /\ Finished("main")
    /\ Start("main", "loop_head")
    /\ UNCHANGED <<lkHeld, appRunning, lkFrame>>

\* shutdown returned
main_exit ==
    /\ lkProg["main"] = "shutdown"
    /\ Finished("main")
    /\ lkProg' = [lkProg EXCEPT !["main"] = "exited"]
    /\ UNCHANGED <<lkPc, lkRet, lkHeld, appRunning, lkFrame>>

\* another task calls an operation of a Protocol Client, App::handle_emails_input,
\* or an operation of AppController
worker_call(name) ==
    /\ lkProg["worker"] = "idle"
    /\ Start("worker", name)
    /\ UNCHANGED <<lkHeld, appRunning, lkFrame>>

\* that operation returned
worker_return ==
    /\ lkProg["worker"] \in WorkerPrograms
    /\ Finished("worker")
    /\ lkProg' = [lkProg EXCEPT !["worker"] = "idle"]
    /\ lkPc' = [lkPc EXCEPT !["worker"] = 0]
    /\ UNCHANGED <<lkRet, lkHeld, appRunning, lkFrame>>

MainStep ==
    \/ task_lock("main") \/ task_unlock("main") \/ task_do("main") \/ task_fail("main")
    \/ main_after_initialize \/ main_loop_test \/ main_next_iteration \/ main_exit
    \/ \E k \in KeyEvents : main_key(k)

WorkerStep ==
    \/ task_lock("worker") \/ task_unlock("worker") \/ task_do("worker") \/ task_fail("worker")
    \/ \E name \in WorkerPrograms : worker_call(name)
    \/ worker_return

LocksNext ==
    \/ \E t \in Tasks : task_lock(t)
    \/ \E t \in Tasks : task_unlock(t)
    \/ \E t \in Tasks : task_do(t)
    \/ \E t \in Tasks : task_fail(t)
    \/ main_after_initialize
    \/ main_loop_test
    \/ \E k \in KeyEvents : main_key(k)
    \/ main_next_iteration
    \/ main_exit
    \/ \E name \in WorkerPrograms : worker_call(name)
    \/ worker_return

\* no task has started
LocksQuiet ==
    /\ lkProg = [t \in Tasks |-> "idle"]
    /\ lkPc = [t \in Tasks |-> 0]
    /\ lkHeld = [t \in Tasks |-> {}]
    /\ lkRet = [t \in Tasks |-> "Ok"]
    /\ appRunning = TRUE

\* main is about to call app_controller.initialize()
LocksStart ==
    /\ lkProg = [t \in Tasks |-> IF t = "main" THEN "initialize" ELSE "idle"]
    /\ lkPc = [t \in Tasks |-> IF t = "main" THEN 1 ELSE 0]
    /\ lkHeld = [t \in Tasks |-> {}]
    /\ lkRet = [t \in Tasks |-> "Ok"]
    /\ appRunning = TRUE

----------------------------------------------------------------------------
(* AccountManager: the four lists accounts, imap_clients, pop3_clients and
   smtp_clients (state/account_manager.rs).  An Account Record is an
   Arc<Mutex<Account>>, written here as the number of its allocation; a client
   is written as the Arc it was created with (ImapClient::new(account_arc.clone())).
   Every operation takes &mut self, so no other operation of AccountManager
   runs between its statements. *)

\* how many Account Records are allocated at most in one behaviour
MaxArcs == 4

\* ImapClient::new / Pop3Client::new / SmtpClient::new: the client keeps the Arc
NewClient(arc) == [account |-> arc]

\* the Arcs allocated for n more accounts
FreshArcs(n) == [k \in 1..n |-> arcs + k]

ListCall(op, index, ret) == [op |-> op, index |-> index, ret |-> ret]

listFrame == <<connVars, mailVars, storeVars, lineVars, wireVars, checkVars, acctVars, lockVars>>

\* load_accounts of a configuration with n accounts: the four `clear()`, then one
\* Account Record and its three clients pushed per account
lists_load_accounts(n) ==
    /\ arcs + n <= MaxArcs
    /\ account_arcs' = FreshArcs(n)
    /\ imap_clients' = [k \in 1..n |-> NewClient(FreshArcs(n)[k])]
    /\ pop3_clients' = [k \in 1..n |-> NewClient(FreshArcs(n)[k])]
    /\ smtp_clients' = [k \in 1..n |-> NewClient(FreshArcs(n)[k])]
    /\ arcs' = arcs + n
    /\ lsCall' = ListCall("load_accounts", n, "Ok")
    /\ UNCHANGED listFrame

\* add_account: `save_config()?` returns before anything is created; otherwise
\* the Account Record and its three clients are pushed
lists_add_account(saves) ==
    /\ arcs < MaxArcs
    /\ Len(account_arcs) < MaxAccounts
    /\ IF saves
       THEN /\ account_arcs' = Append(account_arcs, arcs + 1)
            /\ imap_clients' = Append(imap_clients, NewClient(arcs + 1))
            /\ pop3_clients' = Append(pop3_clients, NewClient(arcs + 1))
            /\ smtp_clients' = Append(smtp_clients, NewClient(arcs + 1))
            /\ arcs' = arcs + 1
            /\ lsCall' = ListCall("add_account", Len(account_arcs) + 1, "Ok")
       ELSE /\ UNCHANGED <<account_arcs, imap_clients, pop3_clients, smtp_clients, arcs>>
            /\ lsCall' = ListCall("add_account", 0, "Err")
    /\ UNCHANGED listFrame

\* update_account: the early returns, `save_config()?`, the three disconnects,
\* and `*account_lock = Account::new(account_config)`, which writes into the
\* Account Record the Arc points to: no list changes
lists_update_account(i, saves) ==
    /\ lsCall' = ListCall("update_account", i,
                          IF i > Len(account_arcs) \/ saves THEN "Ok" ELSE "Err")
    /\ UNCHANGED <<account_arcs, imap_clients, pop3_clients, smtp_clients, arcs>>
    /\ UNCHANGED listFrame

\* delete_account removing the Account Record only
lists_delete_account_record_only(i, saves) ==
    /\ i <= Len(account_arcs) /\ saves
    /\ account_arcs' = Remove(account_arcs, i)
    /\ lsCall' = ListCall("delete_account", i, "Ok")
    /\ UNCHANGED <<imap_clients, pop3_clients, smtp_clients, arcs>>
    /\ UNCHANGED listFrame

\* delete_account: the index test, the three disconnects, `save_config()?`, then
\* the four `remove(index)`
lists_delete_account(i, saves) ==
    /\ IF i > Len(account_arcs)
       THEN /\ lsCall' = ListCall("delete_account", i, "Ok")
            /\ UNCHANGED <<account_arcs, imap_clients, pop3_clients, smtp_clients>>
       ELSE IF ~saves
       THEN /\ lsCall' = ListCall("delete_account", i, "Err")
            /\ UNCHANGED <<account_arcs, imap_clients, pop3_clients, smtp_clients>>
       ELSE /\ account_arcs' = Remove(account_arcs, i)
            /\ imap_clients' = Remove(imap_clients, i)
            /\ pop3_clients' = Remove(pop3_clients, i)
            /\ smtp_clients' = Remove(smtp_clients, i)
            /\ lsCall' = ListCall("delete_account", i, "Ok")
    /\ UNCHANGED arcs
    /\ UNCHANGED listFrame

\* AccountManager::new: four empty lists
ListsQuiet ==
    /\ account_arcs = <<>>
    /\ imap_clients = <<>>
    /\ pop3_clients = <<>>
    /\ smtp_clients = <<>>
    /\ arcs = 0
    /\ lsCall = ListCall("new", 0, "Ok")

ListsNext ==
    \/ \E n \in 0..MaxAccounts : lists_load_accounts(n)
    \/ \E saves \in BOOLEAN : lists_add_account(saves)
    \/ \E i \in 1..(Len(account_arcs) + 1), saves \in BOOLEAN : lists_update_account(i, saves)
    \/ \E i \in 1..(Len(account_arcs) + 1), saves \in BOOLEAN : lists_delete_account(i, saves)

RestQuiet == CheckerQuiet /\ AccountsQuiet /\ LocksQuiet /\ ListsQuiet

----------------------------------------------------------------------------
\* no EmailManager operation has run
MailQuiet ==
    /\ emails = <<>>
    /\ mmOp = "none"
    /\ mmFolder = "none"
    /\ mmRemote = "none"
    /\ mmStore = "none"
    /\ mmResult = "none"

----------------------------------------------------------------------------
(* The orchestration: accounts as load_accounts leaves them, the foreground *)
(* task and the Health Loop interleaved                                     *)

\* load_accounts: one Account::new and three fresh clients per configured account
\* the Account Records and the tasks after load_accounts, before any operation
ConnInit ==
    /\ config \in [Accounts -> [{"imap", "pop3"} -> BOOLEAN]]
    /\ status = [a \in Accounts |-> NewStatus]
    /\ last_error = [a \in Accounts |-> "none"]
    /\ session = [a \in Accounts |-> [p \in ProtoSet |-> "none"]]
    /\ clientLock = [a \in Accounts |-> [p \in ProtoSet |-> "free"]]
    /\ fgOp = "idle"
    /\ fgPc = "idle"
    /\ fgIdx = 0
    /\ fgK = 0
    /\ fgAny = FALSE
    /\ fgSeen = NoSeen
    /\ fgTrace = <<>>
    /\ fgRet = "none"
    /\ hlPc = "sleep"
    /\ hlIdx = 0
    /\ hlK = 0
    /\ connEvent = NoEvent
    /\ lastRes = [a \in Accounts |-> [p \in ProtoSet |-> "none"]]

\* the application after load_accounts, before any operation
AppInit ==
    /\ ConnInit
    /\ cache = EmptyCache
    /\ imapBox = [f \in Folders |-> <<>>]
    /\ pop3Box = <<>>
    /\ MailQuiet

\* none of the separately checked parts is in use
SideQuiet == StoreQuiet /\ LineQuiet /\ WireQuiet /\ RestQuiet

Init == AppInit /\ SideQuiet

Next ==
    \/ \E i \in Indices : connect_account_call(i)
    \/ connect_account_begin
    \/ connect_account_connected
    \/ connect_account_refused
    \/ connect_account_handle
    \/ \E i \in Indices : retry_connections_call(i)
    \/ retry_connections_inspect
    \/ retry_connections_begin
    \/ retry_connections_connected
    \/ retry_connections_refused
    \/ retry_connections_handle
    \/ disconnect_all_clients_call
    \/ disconnect_all_clients_step
    \/ \E a \in Accounts, p \in ProtoSet : client_disconnect_call(a, p)
    \/ client_disconnect_again
    \/ client_disconnect_done
    \/ \E a \in Accounts, p \in ProtoSet : client_use(a, p)
    \/ fg_return
    \/ HealthLoop_tick
    \/ HealthLoop_check
    \/ HealthLoop_probe
    \/ HealthLoop_demote
    \/ HealthLoop_begin
    \/ HealthLoop_refused
    \/ HealthLoop_connected
    \/ HealthLoop_promote

Spec == Init /\ [][Next]_vars

----------------------------------------------------------------------------
(* Synchronisation engine: EmailManager (state/email_manager.rs) *)

\* which client load_emails fetches from: the `if ... else if ...` over
\* has_imap, imap_status, has_pop3, pop3_status
LoadSource(a) ==
    IF HasConfig(a, "imap") /\ status[a]["imap"] = "Connected" THEN "imap"
    ELSE IF HasConfig(a, "pop3") /\ status[a]["pop3"] = "Connected" THEN "pop3"
    ELSE "none"

\* what the chosen client's fetch_emails returns when it succeeds
Fetched(a, src, folder, limit, flags) ==
    IF src = "imap" THEN ImapFetch(a, folder, limit, flags) ELSE Pop3Fetch(a, limit)

\* a failed fetch returning nothing instead of the baseline
LoadResultNoBaseline(baseline, fetchOk, fetched) == IF fetchOk THEN fetched ELSE <<>>

\* the fetched list merged in front of the cached baseline
LoadResultMerged(baseline, fetchOk, fetched) ==
    IF fetchOk THEN fetched \o baseline ELSE baseline

\* the list load_emails returns: the fetched list replaces the cached baseline
\* when the fetch succeeded
LoadResult(baseline, fetchOk, fetched) == IF fetchOk THEN fetched ELSE baseline

\* EmailManager::load_emails(account, imap_client, pop3_client, folder, limit);
\* readOk: storage.get_emails succeeds; fetchOk: the network I/O of fetch_emails
\* succeeds; flags: what the IMAP server reports; failing: the positions whose
\* store_email fails
load_emails(folder, limit, readOk, fetchOk, flags, failing) ==
    LET a        == Sel
        baseline == IF readOk THEN get_emails(cache, AccountId(a), folder) ELSE <<>>
        src      == LoadSource(a)
        live     == src # "none" /\ session[a][src] # "none" /\ fetchOk
        n        == IF live /\ src = "imap" THEN Len(Window(imapBox[folder], limit)) ELSE 0
        fetched  == IF live THEN Fetched(a, src, folder, limit, flags) ELSE <<>>
    IN /\ src = "none" => fetchOk
       /\ flags \in Flags(n)
       /\ failing \subseteq 1..Len(fetched)
       /\ cache' = IF live THEN StoreAll(cache, fetched, failing, 1) ELSE cache
       /\ emails' = LoadResult(baseline, live, fetched)
       /\ mmOp' = "load_emails"
       /\ mmFolder' = folder
       /\ mmRemote' = IF src = "none" THEN "none" ELSE IF live THEN "ok" ELSE "failed"
       /\ mmStore' = IF ~readOk THEN "read_failed"
                     ELSE IF failing # {} THEN "store_failed" ELSE "ok"
       /\ mmResult' = "Ok"
       /\ UNCHANGED <<imapBox, pop3Box>>
       /\ UNCHANGED <<connVars, sideVars>>

MutationOps == {"mark_as_read", "mark_as_unread", "flag_email", "unflag_email", "delete_email"}

\* the email a flag mutation writes to the cache: `let mut updated_email = email.clone()`
\* and the one flag is set
Updated(op, email) ==
    CASE op = "mark_as_read"   -> [email EXCEPT !.is_read = TRUE]
      [] op = "mark_as_unread" -> [email EXCEPT !.is_read = FALSE]
      [] op = "flag_email"     -> [email EXCEPT !.is_flagged = TRUE]
      [] op = "unflag_email"   -> [email EXCEPT !.is_flagged = FALSE]
      [] OTHER                 -> email

\* the IMAP mailbox after the remote step: delete_email stores \Deleted on the
\* UID and expunges; the flag stores keep every message
RemoteApply(op, box, id) ==
    IF op = "delete_email" THEN SelectSeq(box, LAMBDA m : m.id # id) ELSE box

\* the cache after the local step of a mutation
LocalApply(op, c, email, folder) ==
    IF op = "delete_email"
    THEN delete_email_at(c, email.account_id, folder, email.id)
    ELSE update_email(c, Updated(op, email))

\* the local step running whatever the remote step returned
CacheAfterMutationLocalAnyway(op, c, email, folder, remoteOk, storeOk) ==
    IF storeOk THEN LocalApply(op, c, email, folder) ELSE c

\* the cache a mutation leaves: the local step runs only after the remote step
\* succeeded (`return Err(e.into())` otherwise) and only if the store itself succeeds
CacheAfterMutation(op, c, email, folder, remoteOk, storeOk) ==
    IF remoteOk /\ storeOk THEN LocalApply(op, c, email, folder) ELSE c

\* EmailManager::mark_as_read / mark_as_unread / flag_email / unflag_email /
\* delete_email(imap_client, email, folder); ioOk: the IMAP commands succeed;
\* storeOk: the cache write succeeds
mutate(op, email, folder, ioOk, storeOk) ==
    LET a        == Sel
        remoteOk == session[a]["imap"] # "none" /\ ioOk
    IN /\ session[a]["imap"] = "none" => ioOk
       /\ ~remoteOk => storeOk
       /\ imapBox' = IF remoteOk
                     THEN [imapBox EXCEPT ![folder] = RemoteApply(op, imapBox[folder], email.id)]
                     ELSE imapBox
       /\ cache' = CacheAfterMutation(op, cache, email, folder, remoteOk, storeOk)
       /\ mmOp' = op
       /\ mmFolder' = folder
       /\ mmRemote' = IF remoteOk THEN "ok" ELSE "failed"
       /\ mmStore' = IF ~remoteOk THEN "none" ELSE IF storeOk THEN "ok" ELSE "store_failed"
       /\ mmResult' = IF remoteOk /\ storeOk THEN "Ok" ELSE "Err"
       /\ UNCHANGED <<pop3Box, emails>>
       /\ UNCHANGED <<connVars, sideVars>>

Range(seq) == {seq[i] : i \in 1..Len(seq)}

\* how many messages the fetch of load_emails returns
FetchLen(src, folder, limit) ==
    IF src = "imap" THEN Len(Window(imapBox[folder], limit))
    ELSE IF src = "pop3" THEN Len(Window(pop3Box, limit))
    ELSE 0

Load ==
    \E folder \in Folders, limit \in 1..MaxMsgs, readOk \in BOOLEAN, fetchOk \in BOOLEAN :
        LET src == LoadSource(Sel)
            n   == IF fetchOk THEN FetchLen(src, folder, limit) ELSE 0
        IN \E flags \in Flags(IF src = "imap" THEN n ELSE 0), failing \in SUBSET (1..n) :
              load_emails(folder, limit, readOk, fetchOk, flags, failing)

Mutate ==
    \E op \in MutationOps, email \in Range(emails), folder \in Folders,
       ioOk \in BOOLEAN, storeOk \in BOOLEAN :
        mutate(op, email, folder, ioOk, storeOk)

\* the states the engine is started in: each configured retrieval protocol either
\* never connected or connected with its session; a fresh cache; the server of the
\* protocol load_emails fetches from holds any mailbox (IMAP: in INBOX)
MailInit ==
    /\ config \in [Accounts -> [{"imap", "pop3"} -> BOOLEAN]]
    /\ status \in [Accounts -> [ProtoSet -> {"Disconnected", "Connected"}]]
    /\ \A a \in Accounts, p \in ProtoSet :
          status[a][p] = "Connected" => HasConfig(a, p) /\ p # "smtp"
    /\ session = [a \in Accounts |-> [p \in ProtoSet |->
                    IF status[a][p] = "Connected" THEN "live" ELSE "none"]]
    /\ last_error = [a \in Accounts |-> "none"]
    /\ clientLock = [a \in Accounts |-> [p \in ProtoSet |-> "free"]]
    /\ fgOp = "idle" /\ fgPc = "idle" /\ fgIdx = 0 /\ fgK = 0 /\ fgAny = FALSE
    /\ fgSeen = NoSeen /\ fgTrace = <<>> /\ fgRet = "none"
    /\ hlPc = "sleep" /\ hlIdx = 0 /\ hlK = 0
    /\ connEvent = NoEvent
    /\ lastRes = [a \in Accounts |-> [p \in ProtoSet |->
                    IF status[a][p] = "Connected" THEN "ok" ELSE "none"]]
    /\ cache = EmptyCache
    /\ \E b \in ImapBoxes :
          /\ LoadSource(Sel) # "imap" => b = <<>>
          /\ imapBox = [f \in Folders |-> IF f = "INBOX" THEN b ELSE <<>>]
    /\ pop3Box \in Pop3Boxes
    /\ LoadSource(Sel) # "pop3" => pop3Box = <<>>
    /\ MailQuiet
    /\ SideQuiet

\* between two calls of the engine the application disconnects a connected
\* retrieval client of the selected account (ImapClient/Pop3Client::disconnect with
\* the farewell delivered): the session is dropped and the status is Disconnected
client_disconnected(p) ==
    /\ status[Sel][p] = "Connected"
    /\ ClientDisconnect(Sel, p, "ok")
    /\ mmOp' = "disconnect"
    /\ mmFolder' = "none"
    /\ mmRemote' = "none"
    /\ mmStore' = "none"
    /\ mmResult' = "Ok"
    /\ UNCHANGED <<clientLock, fgLocals, hlLocals>>
    /\ UNCHANGED <<cache, imapBox, pop3Box, emails>>
    /\ UNCHANGED sideVars

Drop == \E p \in {"imap", "pop3"} : client_disconnected(p)

MailNext == Load \/ Mutate \/ Drop

SpecMail == MailInit /\ [][MailNext]_vars

\* the application with no account configured
Parked == AppInit /\ \A a \in Accounts : ~HasConfig(a, "imap") /\ ~HasConfig(a, "pop3")

StoreInit == Parked /\ SideQuiet

\* read_multiline_response on its own
LinesInit == Parked /\ StoreQuiet /\ WireQuiet /\ RestQuiet /\ LineStart

SpecLines == LinesInit /\ [][LineNext]_vars

\* the line reader on streams that may end early
StreamsInit == Parked /\ StoreQuiet /\ WireQuiet /\ RestQuiet /\ StreamStart

SpecStreams == StreamsInit /\ [][LineNext]_vars

\* the POP3 client of the selected account on its own, against a server that
\* holds any maildrop
WireInit ==
    /\ ConnInit
    /\ cache = EmptyCache
    /\ imapBox = [f \in Folders |-> <<>>]
    /\ pop3Box \in Maildrops
    /\ MailQuiet
    /\ SideQuiet

SpecPop3 == WireInit /\ [][WireNext]_vars

\* the storage on its own
SpecStore == StoreInit /\ [][StoreNext]_vars

\* AccountManager with no account loaded, any default account in the configuration
AccountsInit ==
    /\ config = <<>> /\ status = <<>> /\ last_error = <<>> /\ session = <<>>
    /\ clientLock = <<>> /\ lastRes = <<>>
    /\ fgOp = "idle" /\ fgPc = "idle" /\ fgIdx = 0 /\ fgK = 0 /\ fgAny = FALSE
    /\ fgSeen = NoSeen /\ fgTrace = <<>> /\ fgRet = "none"
    /\ hlPc = "sleep" /\ hlIdx = 0 /\ hlK = 0
    /\ connEvent = NoEvent
    /\ cache = EmptyCache /\ imapBox = [f \in Folders |-> <<>>] /\ pop3Box = <<>>
    /\ MailQuiet /\ StoreQuiet /\ LineQuiet /\ WireQuiet /\ CheckerQuiet /\ LocksQuiet /\ ListsQuiet
    /\ acctIds = <<>>
    /\ \E d \in DefaultAccounts : cfg = AppConfig(<<>>, d)
    /\ saved = cfg
    /\ amArg = NoAccountArg
    /\ amBefore = Mem
    /\ amSaved = "none"
    /\ amFailures = 0

\* the account operations on their own
SpecAccounts == AccountsInit /\ [][AccountsNext]_vars

\* AppController::initialize: AccountManager::load_accounts of the configuration
\* in AppState has created one Account Record and three clients per account
ControllerInit ==
    /\ acctIds = [k \in 1..Len(StateConfig.accounts) |-> StateConfig.accounts[k].id]
    /\ config = [k \in 1..Len(StateConfig.accounts) |-> ConfigOf(StateConfig.accounts[k])]
    /\ status = [k \in 1..Len(StateConfig.accounts) |-> NewStatus]
    /\ last_error = [k \in 1..Len(StateConfig.accounts) |-> "none"]
    /\ session = [k \in 1..Len(StateConfig.accounts) |-> [p \in ProtoSet |-> "none"]]
    /\ clientLock = [k \in 1..Len(StateConfig.accounts) |-> [p \in ProtoSet |-> "free"]]
    /\ lastRes = [k \in 1..Len(StateConfig.accounts) |-> [p \in ProtoSet |-> "none"]]
    /\ fgOp = "idle" /\ fgPc = "idle" /\ fgIdx = 0 /\ fgK = 0 /\ fgAny = FALSE
    /\ fgSeen = NoSeen /\ fgTrace = <<>> /\ fgRet = "none"
    /\ hlPc = "sleep" /\ hlIdx = 0 /\ hlK = 0
    /\ connEvent = NoEvent
    /\ cache = EmptyCache /\ imapBox = [f \in Folders |-> <<>>] /\ pop3Box = <<>>
    /\ MailQuiet /\ StoreQuiet /\ LineQuiet /\ WireQuiet /\ CheckerQuiet /\ LocksQuiet /\ ListsQuiet
    /\ cfg = StateConfig
    /\ saved = cfg
    /\ amArg = NoAccountArg
    /\ amBefore = Mem
    /\ amSaved = "none"
    /\ amFailures = 0

SpecController == ControllerInit /\ [][ControllerNext]_vars

\* the background checker on its own
SpecChecker == StoreInit /\ [][CheckerNext]_vars

\* the same under the scheduling of the runtime: a call that has set the flag goes
\* on to spawn, and a spawned task that can take a step takes it (an interval
\* ticks again and again, a pass over the accounts comes to its end)
SpecCheckerFair ==
    /\ SpecChecker
    /\ WF_vars(start_background_checker_spawn)
    /\ \A t \in 1..MaxTasks : WF_vars(t <= Len(tasks) /\ (checker_wake(t) \/ checker_pass(t)))

\* the lists of AccountManager on their own, from AccountManager::new
SpecLists == StoreInit /\ [][ListsNext]_vars

\* the tasks and their locks on their own
LocksInit == Parked /\ StoreQuiet /\ LineQuiet /\ WireQuiet /\ CheckerQuiet /\ AccountsQuiet /\ ListsQuiet /\ LocksStart

SpecLocks == LocksInit /\ [][LocksNext]_vars

\* the same under the scheduling of the runtime: a task that can take a step
\* takes it
SpecLocksFair == SpecLocks /\ WF_vars(MainStep) /\ WF_vars(WorkerStep)

----------------------------------------------------------------------------
(* Properties of the connection orchestration (checked under Spec) *)

\* C1: a retrieval protocol (IMAP, POP3) that has no configuration on an account
\* has status Disconnected in every reachable state.
C1_UnconfiguredDisconnected ==
    \A a \in Accounts, p \in {"imap", "pop3"} :
        ~HasConfig(a, p) => status[a][p] = "Disconnected"

\* connect_account has run to its end on an account without IMAP while SMTP
\* connected, and the Health Loop is in the middle of a pass
C1_Witness ==
    /\ fgOp = "connect_account" /\ fgPc = "done" /\ fgIdx \in Accounts
    /\ ~HasConfig(fgIdx, "imap")
    /\ status[fgIdx]["smtp"] = "Connected"
    /\ status[fgIdx]["imap"] = "Disconnected"
    /\ hlPc # "sleep"

\* C2: connect() of a configured client sets the status to Connecting when it
\* starts; when it returns Ok the status is Connected and last_error is cleared;
\* when it returns Err the status is Failed and last_error holds the error text.
C2_ConnectRecordsOutcome ==
    (connEvent.kind # "none" /\ HasConfig(connEvent.a, connEvent.p)) =>
        /\ connEvent.kind = "started" => connEvent.st = "Connecting"
        /\ connEvent.kind = "ok" => connEvent.st = "Connected" /\ connEvent.le = "none"
        /\ connEvent.kind = "err" =>
              /\ connEvent.st = "Failed"
              /\ connEvent.le = ErrText(connEvent.p, "err")

\* C3: after connect() returned an error the client holds no usable session: the
\* next fetch, mutation or send on it fails with the not-connected error.
C3_FailedConnectLeavesNoSession ==
    (fgOp = "use" /\ fgTrace[1].res = "err") => fgRet = "NotConnected"

\* C4: connect_account(i) for a valid index attempts IMAP if configured, then POP3
\* if configured, then SMTP, in that order and whatever the earlier outcomes, and
\* returns true exactly when one of the attempts succeeded.
C4_ConnectAccountOrderAndResult ==
    (fgOp = "connect_account" /\ fgPc = "done" /\ fgIdx \in Accounts) =>
        /\ [i \in 1..Len(fgTrace) |-> fgTrace[i].p]
             = SelectSeq(Protocols, LAMBDA p : HasConfig(fgIdx, p))
        /\ fgRet = "Ok(true)" <=> \E i \in 1..Len(fgTrace) : fgTrace[i].res = "ok"
        /\ fgRet \in {"Ok(true)", "Ok(false)"}

\* all three protocols configured, IMAP and POP3 refused, SMTP connected
C4_Witness ==
    /\ fgOp = "connect_account" /\ fgPc = "done" /\ fgIdx \in Accounts
    /\ Len(fgTrace) = 3
    /\ fgTrace[1].res = "err" /\ fgTrace[2].res = "err" /\ fgTrace[3].res = "ok"
    /\ fgRet = "Ok(true)"

\* C5: connect_account never returns an error: every failed attempt is handled by
\* writing status Failed for that protocol and the error text into last_error, and
\* the call completes with Ok.
C5_ConnectAccountAbsorbsErrors ==
    [][ /\ (fgOp' = "connect_account" /\ Len(fgTrace') > Len(fgTrace)
              /\ fgTrace'[Len(fgTrace')].res # "ok") => fgPc' = "handle"
        /\ (fgOp = "connect_account" /\ fgPc = "handle" /\ fgPc' # "handle") =>
              /\ status'[fgIdx][Protocols[fgK]] = "Failed"
              /\ last_error'[fgIdx] = ErrText(Protocols[fgK], fgTrace[Len(fgTrace)].res)
        /\ (fgOp' = "connect_account" /\ fgPc' = "done") =>
              fgRet' \in {"Ok(true)", "Ok(false)"}
      ]_vars

\* every attempt of one call was refused and the call returned Ok(false)
C5_Witness ==
    /\ fgOp = "connect_account" /\ fgPc = "done" /\ fgIdx \in Accounts
    /\ Len(fgTrace) = 3
    /\ \A i \in 1..3 : fgTrace[i].res = "err"
    /\ fgRet = "Ok(false)"
    /\ status[fgIdx]["smtp"] = "Failed"
    /\ last_error[fgIdx] = ErrText("smtp", "err")

\* C6: retry_connections(i) calls connect() exactly on the protocols that are
\* configured and whose status is Failed when it inspects them; the status and the
\* session of every other protocol are left as they are.
C6_RetryOnlyFailed ==
    [][ (fgOp = "retry_connections" /\ fgIdx \in Accounts /\ fgLocals' # fgLocals) =>
          /\ \A p \in ProtoSet :
                (status'[fgIdx][p] # status[fgIdx][p] \/ session'[fgIdx][p] # session[fgIdx][p])
                    => /\ p = Protocols[fgK]
                       /\ HasConfig(fgIdx, p)
                       /\ fgSeen'[p] = "Failed"
          /\ fgPc' = "done" =>
                \A p \in ProtoSet :
                    (\E i \in 1..Len(fgTrace') : fgTrace'[i].p = p)
                        <=> (HasConfig(fgIdx, p) /\ fgSeen'[p] = "Failed")
      ]_vars

\* IMAP = Connected, POP3 = Failed, SMTP = Disconnected: only POP3 was attempted
C6_Witness ==
    /\ fgOp = "retry_connections" /\ fgPc = "done"
    /\ fgSeen = [p \in ProtoSet |->
                    CASE p = "imap" -> "Connected" [] p = "pop3" -> "Failed"
                      [] OTHER -> "Disconnected"]
    /\ Len(fgTrace) = 1 /\ fgTrace[1].p = "pop3"
    /\ status[fgIdx]["imap"] = "Connected"
    /\ status[fgIdx]["smtp"] = "Disconnected"

\* C7: disconnect() called twice in a row leaves the status Disconnected after the
\* first and after the second call, and the second call returns no error and sends
\* nothing to the server.
C7_DisconnectTwice ==
    (fgOp = "disconnect" /\ Len(fgTrace) = 2) =>
        /\ fgTrace[1].st = "Disconnected"
        /\ fgTrace[2].st = "Disconnected"
        /\ fgTrace[2].res = "Ok"
        /\ ~fgTrace[2].sent

\* C8: disconnect() ends with the status Disconnected and the session released,
\* for every prior status and every outcome of the farewell exchange.
C8_DisconnectAlwaysReleases ==
    (fgOp = "disconnect" /\ fgPc = "called") =>
        /\ status[fgIdx][Protocols[fgK]] = "Disconnected"
        /\ session[fgIdx][Protocols[fgK]] = "none"

----------------------------------------------------------------------------
(* Properties of the synchronisation engine (checked under SpecMail) *)

\* C9: a mutation (mark_as_read, mark_as_unread, flag_email, unflag_email,
\* delete_email) whose remote IMAP step fails, also for want of a session,
\* returns an error and leaves the Cache exactly as it was.
C9_FailedRemoteKeepsCache ==
    [][ (mmOp' \in MutationOps /\ mmRemote' = "failed") =>
            (mmResult' = "Err" /\ cache' = cache)
      ]_vars

\* mark_as_read was refused by the server while the session was live and the
\* cache held the caller's unread copy
C9_Witness ==
    /\ mmOp = "mark_as_read" /\ mmRemote = "failed" /\ mmResult = "Err"
    /\ session[Sel]["imap"] = "live"
    /\ \E i \in 1..Len(emails) :
          /\ ~emails[i].is_read
          /\ get_email(cache, AccountId(Sel), emails[i].folder, emails[i].id) = emails[i]

\* C10: after load_emails(account, folder, limit) fetched successfully, every
\* message m of the list it returns, lists with a repeated id included, is read
\* back from the Cache under (account id, folder, m.id) and equals m.
C10_ReturnedReadableFromCache ==
    (mmOp = "load_emails" /\ mmRemote = "ok" /\ mmStore = "ok") =>
        \A i \in 1..Len(emails) :
            get_email(cache, AccountId(Sel), mmFolder, emails[i].id) = emails[i]

\* the cache key a message is stored under
KeyOf(email) == Key(email.account_id, email.folder, email.id)

\* the lists a successful fetch of `folder` can hand to load_emails in the
\* current state, one per limit and per flag report of the server
FetchedLists(folder) ==
    LET src == LoadSource(Sel)
    IN UNION {{Fetched(Sel, src, folder, limit, flags) :
                  flags \in Flags(IF src = "imap" THEN FetchLen(src, folder, limit) ELSE 0)} :
              limit \in 1..MaxMsgs}

\* C11: when the live fetch of load_emails succeeds, the call returns exactly the
\* fetched list; with every cache write succeeding each fetched message's key holds
\* the fetched message stored last under it; a cached message whose key is not
\* among the fetched ones is not in the result and stays in the Cache unchanged.
C11_FetchReplacesBaseline ==
    [][ (mmOp' = "load_emails" /\ mmRemote' = "ok") =>
          /\ emails' \in FetchedLists(mmFolder')
          /\ mmStore' = "ok" =>
                \A i \in 1..Len(emails') :
                    LET last == CHOOSE j \in i..Len(emails') :
                                    /\ KeyOf(emails'[j]) = KeyOf(emails'[i])
                                    /\ \A l \in (j + 1)..Len(emails') :
                                          KeyOf(emails'[l]) # KeyOf(emails'[i])
                    IN cache'[KeyOf(emails'[i])] = emails'[last]
          /\ \A k \in Keys :
                (\A i \in 1..Len(emails') : KeyOf(emails'[i]) # k) =>
                    /\ cache'[k] = cache[k]
                    /\ cache[k] # NoEmail => cache[k] \notin Range(emails')
      ]_vars

\* a successful fetch with a smaller limit returned one message while the Cache
\* kept, in the same folder, a message of an earlier call that was not fetched again
C11_Witness ==
    /\ mmOp = "load_emails" /\ mmRemote = "ok" /\ mmStore = "ok"
    /\ Len(emails) >= 1
    /\ \A i \in 1..Len(emails) : cache[KeyOf(emails[i])] = emails[i]
    /\ \E k \in Keys :
          /\ cache[k] # NoEmail
          /\ cache[k].folder = emails[1].folder
          /\ \A i \in 1..Len(emails) : KeyOf(emails[i]) # k

\* the messages the Cache holds for the selected account in one folder
CachedIn(c, folder) == {c[Key(AccountId(Sel), folder, i)] : i \in Ids} \ {NoEmail}

C13_LoadAlwaysOk ==
    [][ mmOp' = "load_emails" =>
          /\ mmResult' = "Ok"
          /\ mmRemote' = "failed" =>
                /\ cache' = cache
                /\ mmStore' # "read_failed" =>
                      emails' = get_emails(cache, AccountId(Sel), mmFolder')
          /\ (mmRemote' # "ok" /\ mmStore' = "read_failed") => emails' = <<>>
      ]_vars

\* the fetch of a connected client failed while the Cache held messages of the
\* folder: the call returned Ok with those messages
C13_Witness ==
    /\ mmOp = "load_emails" /\ mmRemote = "failed" /\ mmStore = "ok" /\ mmResult = "Ok"
    /\ LoadSource(Sel) # "none"
    /\ Len(emails) >= 1
    /\ Range(emails) = CachedIn(cache, mmFolder)

----------------------------------------------------------------------------
(* Properties of the storage (checked under SpecStore) *)

----------------------------------------------------------------------------
(* Properties of the POP3 line reader (checked under SpecLines) *)

\* the position of the first line equal to "." in a response
FirstDot(lines) == CHOOSE k \in 1..Len(lines) :
                      lines[k] = <<".">> /\ \A i \in 1..(k - 1) : lines[i] # <<".">>

RECURSIVE WireLen(_, _)
\* the number of bytes the first k lines take on the wire
WireLen(lines, k) == IF k = 0 THEN 0 ELSE Len(lines[k]) + Len(CRLF) + WireLen(lines, k - 1)

\* C15: read_multiline_response returns, in order, exactly the lines received
\* before the first line equal to ".", a line that begins with ".." without
\* its first "." and every other line as it is, the terminating line excluded,
\* and it has consumed the stream up to the end of that terminating line and no
\* further.
C15_LinesBeforeTerminator ==
    rmPc = "returned" =>
        LET k == FirstDot(rmInput)
        IN /\ Len(rmLines) = k - 1
           /\ \A i \in 1..(k - 1) :
                 rmLines[i] = IF Len(rmInput[i]) >= 2 /\ <<rmInput[i][1], rmInput[i][2]>> = <<".", ".">>
                              THEN SubSeq(rmInput[i], 2, Len(rmInput[i]))
                              ELSE rmInput[i]
           /\ rmPos = WireLen(rmInput, k)

\* "..h" CR LF "." CR LF was read and the single line ".h" returned
C15_Witness ==
    /\ rmPc = "returned"
    /\ rmInput = <<<<".", ".", "h">>, <<".">>>>
    /\ rmLines = <<<<".", "h">>>>
    /\ rmPos = Len(rmBytes)

----------------------------------------------------------------------------
(* Properties of the POP3 client (checked under SpecPop3) *)

\* the exchanges of a POP3 connect in their order: what is read and what is sent
ConnectScript ==
    << [dir |-> "got", cmd |-> "greeting"],
       [dir |-> "sent", cmd |-> "USER"], [dir |-> "got", cmd |-> "USER"],
       [dir |-> "sent", cmd |-> "PASS"], [dir |-> "got", cmd |-> "PASS"],
       [dir |-> "sent", cmd |-> "STAT"], [dir |-> "got", cmd |-> "STAT"] >>

\* C16: a POP3 connect reads the greeting, sends USER, sends PASS, sends STAT, in
\* this order; every reply before the latest entry of its log begins with +OK, so
\* nothing is sent after a reply that does not (USER never after such a greeting,
\* PASS never unless USER was answered +OK); a reply that does not begin with
\* +OK ends the connect with an error, and a connect that returns Ok has made
\* all four exchanges.
C16_ConnectOrder ==
    p3Op = "connect" =>
        /\ Len(p3Log) <= Len(ConnectScript)
        /\ \A i \in 1..Len(p3Log) :
              /\ p3Log[i].dir = ConnectScript[i].dir
              /\ p3Log[i].cmd = ConnectScript[i].cmd
              /\ (p3Log[i].dir = "got" /\ p3Log[i].reply # Positive) =>
                    /\ i = Len(p3Log)
                    /\ p3Pc = "returned"
                    /\ p3Ret.kind = "Err"
        /\ (p3Pc = "returned" /\ p3Ret.kind = "Ok") => Len(p3Log) = Len(ConnectScript)

\* the server greeted with +OK and refused USER: the connect returned the error
\* and PASS was not sent
C16_Witness ==
    /\ p3Op = "connect" /\ p3Pc = "returned" /\ p3Ret.kind = "Err"
    /\ Len(p3Log) = 3
    /\ p3Log[1] = Got("greeting", 0, Positive)
    /\ p3Log[2] = Sent("USER", 0)
    /\ p3Log[3] = Got("USER", 0, "-ERR")

\* the message numbers of the RETR commands in a log, in the order they were sent
RetrNumbers(log) ==
    LET retrs == SelectSeq(log, LAMBDA e : e.dir = "sent" /\ e.cmd = "RETR")
    IN [j \in 1..Len(retrs) |-> retrs[j].arg]

\* the message numbers whose lines were read and parsed
Retrieved(log) == {e.arg : e \in {x \in Range(log) : x.cmd = "body" /\ x.reply = "parsed"}}

\* C17: a POP3 fetch_emails(limit) whose STAT reply reported N messages sends
\* RETR for the numbers max(N - limit, 0) + 1 .. N, ascending and without a gap,
\* all of them when it returns Ok; the list it returns holds the retrieved
\* messages, each once, newest date first, and of two messages with the same date
\* the one retrieved first (the lower number) comes first.
C17_FetchWindowAndOrder ==
    (p3Op = "fetch_emails" /\ p3StatForm = "counted") =>
        LET N     == p3Count
            first == (IF N - p3Limit > 0 THEN N - p3Limit ELSE 0) + 1
            nums  == RetrNumbers(p3Log)
        IN /\ \A j \in 1..Len(nums) : nums[j] = first + j - 1
           /\ Len(nums) <= N - first + 1
           /\ (p3Pc = "returned" /\ p3Ret.kind = "Ok") =>
                 /\ Len(nums) = N - first + 1
                 /\ {p3Got[i].id : i \in 1..Len(p3Got)} = Retrieved(p3Log)
                 /\ Len(p3Got) = Cardinality(Retrieved(p3Log))
                 /\ \A i \in 1..Len(p3Got) : p3Got[i].date = pop3Box[p3Got[i].id].date
                 /\ \A i, j \in 1..Len(p3Got) :
                       i < j => \/ p3Got[i].date > p3Got[j].date
                                \/ /\ p3Got[i].date = p3Got[j].date
                                   /\ p3Got[i].id < p3Got[j].id

\* three messages on the server and limit 2: RETR 2 and RETR 3 were sent, both
\* messages came back, number 3 being newer is first in the returned list
C17_Witness ==
    /\ p3Op = "fetch_emails" /\ p3Pc = "returned" /\ p3Ret.kind = "Ok"
    /\ p3Count = 3 /\ p3Limit = 2
    /\ RetrNumbers(p3Log) = <<2, 3>>
    /\ Len(p3Got) = 2
    /\ p3Got[1].id = 3 /\ p3Got[2].id = 2

\* C18: the STAT exchange of a POP3 connect or fetch_emails whose reply reports N
\* messages sets total_count and unread_count of the account to N, whatever the
\* limit, and the rest of the fetch leaves them there; an account with only POP3
\* configured has unread_count = total_count in every reachable state.
C18_CountsFollowStat ==
    /\ [][ (p3Pc = "STAT" /\ p3StatForm' = "counted") =>
              /\ total_count'[Sel] = Len(pop3Box)
              /\ unread_count'[Sel] = Len(pop3Box)
         ]_vars
    /\ [][ (p3Op = "fetch_emails" /\ p3Pc = "RETR") =>
              /\ total_count' = total_count
              /\ unread_count' = unread_count
         ]_vars
    /\ [](\A a \in Accounts :
            (HasConfig(a, "pop3") /\ ~HasConfig(a, "imap")) =>
                unread_count[a] = total_count[a])

\* on an account with only POP3 configured a fetch with limit 1 returned from a
\* maildrop of three messages: both counts are three
C18_Witness ==
    /\ HasConfig(Sel, "pop3") /\ ~HasConfig(Sel, "imap")
    /\ p3Op = "fetch_emails" /\ p3Pc = "returned" /\ p3Ret.kind = "Ok"
    /\ p3Limit = 1 /\ Len(p3Got) = 1
    /\ Len(pop3Box) = 3
    /\ total_count[Sel] = 3 /\ unread_count[Sel] = 3

\* the commands whose reply the client checks
CheckedCommands == {"USER", "PASS", "STAT", "RETR", "DELE"}

\* C19: every reply not beginning with +OK that the client gets to USER, PASS,
\* STAT, RETR or DELE is the last thing the operation reads: the operation has
\* returned, with an error that carries that reply line.
C19_NegativeReplyIsReturned ==
    \A i \in 1..Len(p3Log) :
        ( /\ p3Log[i].dir = "got"
          /\ p3Log[i].cmd \in CheckedCommands
          /\ p3Log[i].reply # Positive ) =>
            /\ i = Len(p3Log)
            /\ p3Pc = "returned"
            /\ p3Ret.kind = "Err"
            /\ p3Ret.text = p3Log[i].reply

----------------------------------------------------------------------------
(* Properties of the Health Loop (checked under Spec) *)

\* C20: when the connect that a Health Loop pass attempts on a retrieval protocol
\* it read as Disconnected fails, the status of that protocol is Disconnected
\* again as the pass moves on, so that the next pass attempts it again.
C20_FailedReconnectStaysDisconnected ==
    [][ ( /\ hlPc = "io"
          /\ hlPc' \notin {"io", "promote"}
          /\ Protocols[hlK] \in {"imap", "pop3"} ) =>
            status'[hlIdx][Protocols[hlK]] = "Disconnected"
      ]_vars

----------------------------------------------------------------------------
(* Properties of the Health Loop pass *)

\* the Health Loop takes the step: it reads a status and moves on
HealthLoopReads == hlPc = "check" /\ hlLocals' # hlLocals

\* C21: on a pass of the Health Loop, every configured retrieval protocol (IMAP and
\* POP3 alike) whose status is read as Connected is probed next, and a probe that
\* fails sets that status to Disconnected, never to Failed.
C21_ProbesEveryRetrievalProtocol ==
    /\ [][ ( /\ HealthLoopReads
             /\ Protocols[hlK] \in {"imap", "pop3"}
             /\ HasConfig(hlIdx, Protocols[hlK])
             /\ status[hlIdx][Protocols[hlK]] = "Connected" ) =>
                 hlPc' = "probe" ]_vars
    /\ [][ (hlPc = "demote" /\ hlLocals' # hlLocals) =>
             status'[hlIdx][Protocols[hlK]] = "Disconnected" ]_vars

\* C22: on a pass of the Health Loop the SMTP client is asked to reconnect whenever
\* the SMTP status read is anything other than Connected.
C22_SmtpReconnectsUnlessConnected ==
    [][ ( /\ HealthLoopReads
          /\ Protocols[hlK] = "smtp"
          /\ status[hlIdx]["smtp"] # "Connected" ) =>
              hlPc' = "begin" ]_vars

----------------------------------------------------------------------------
(* Properties of the background checker (checked under SpecChecker and SpecCheckerFair) *)

\* the step is a call of start_background_checker, up to its early return or
\* to the drop of the flag's guard
StartCalled ==
    /\ cmPc = "idle"
    /\ cmOp' = "start"
    /\ <<is_running, cmPc, cmOp, cmSeen, cmBefore>>' # <<is_running, cmPc, cmOp, cmSeen, cmBefore>>

\* C23: a call of start_background_checker that finds the checker Running returns
\* at once, spawns no task and leaves it Running; a call that finds it Stopped sets
\* Running and goes on to spawn exactly one task; tasks are spawned nowhere else.
C23_StartIdempotent ==
    /\ [][ (StartCalled /\ is_running) =>
              (is_running' /\ cmPc' = "idle" /\ tasks' = tasks) ]_vars
    /\ [][ (StartCalled /\ ~is_running) =>
              (is_running' /\ cmPc' = "spawn" /\ tasks' = tasks) ]_vars
    /\ [][ (cmPc = "spawn" /\ cmPc' = "idle") => Len(tasks') = Len(tasks) + 1 ]_vars
    /\ [][ Len(tasks') # Len(tasks) => (cmPc = "spawn" /\ cmPc' = "idle") ]_vars

\* a call that found the checker Running has returned and the one task spawned
\* before it is still the only one
C23_Witness ==
    /\ cmOp = "start" /\ cmPc = "idle" /\ cmSeen
    /\ is_running
    /\ Len(tasks) = 1 /\ cmBefore = 1

\* C24: a task that wakes up with the flag cleared leaves the loop instead of
\* starting a pass, and when the flag stays cleared from some point on (a stop
\* with no start after it) every spawned task has exited from some point on.
C24_StopEndsTask ==
    /\ [][ \A t \in 1..Len(tasks) :
              (tasks[t].pc = "tick" /\ tasks'[t] # tasks[t] /\ ~is_running) =>
                  tasks'[t].pc = "exited" ]_vars
    /\ ( <>[](~is_running) =>
           <>[](cmPc = "idle" /\ \A t \in 1..Len(tasks) : ~Alive(tasks[t])) )

\* stop was called while a task was running, and the task has exited since
C24_Witness ==
    /\ cmOp = "stop" /\ cmSeen
    /\ ~is_running
    /\ Len(tasks) = 1 /\ ~Alive(tasks[1])

----------------------------------------------------------------------------
(* Properties of disconnect_all_clients (checked under Spec) *)

\* the client the k-th disconnect() of disconnect_all_clients is due on
DisconnectDue(k) == <<"imap", "pop3", "smtp">>[((k - 1) % 3) + 1]

----------------------------------------------------------------------------
(* Properties of the account operations (checked under SpecAccounts) *)

\* the account records, their configuration, statuses and sessions are as the
\* operation in progress found them
MemSame ==
    /\ acctIds = amBefore.ids
    /\ config = amBefore.config
    /\ status = amBefore.status
    /\ session = amBefore.session

\* C26: in add_account, update_account and delete_account the in-memory state of
\* the orchestrator (account records, client lists, statuses, sessions) is
\* untouched until save_config has succeeded, and a failed save_config makes the
\* operation return the error with that state as the call found it.
C26_SaveBeforeMemory ==
    fgOp \in AccountOps =>
        /\ amSaved # "ok" => MemSame
        /\ amSaved \notin {"none", "ok"} => (fgPc = "done" /\ fgRet = "Err")

\* C27: when update_account returns Ok after its save, and when delete_account
\* is about to remove the account, disconnect() has been called on all three
\* clients of the account and none of them holds a session any more.
C27_NoOrphanedSession ==
    ( \/ (fgOp = "update_account" /\ fgPc = "done" /\ fgRet = "Ok" /\ amSaved = "ok")
      \/ (fgOp = "delete_account" /\ fgPc = "remove") ) =>
        /\ Len(fgTrace) = 3
        /\ \A k \in 1..3 : fgTrace[k].p = Protocols[k]
        /\ \A p \in ProtoSet : session[fgIdx][p] = "none"

\* C28: delete_account(i) saves a configuration whose default account is none
\* when it was the id of the deleted account, and is unchanged otherwise.
C28_DeleteClearsDefault ==
    (fgOp = "delete_account" /\ amSaved = "ok") =>
        /\ saved = cfg
        /\ saved.default = IF amBefore.ids[fgIdx] \in amBefore.default
                           THEN {}
                           ELSE amBefore.default

\* the first of two accounts with different ids was the default account and
\* has been deleted
C28_Witness ==
    /\ fgOp = "delete_account" /\ fgPc = "done" /\ fgRet = "Ok"
    /\ fgIdx = 1
    /\ Len(amBefore.ids) = 2
    /\ amBefore.ids[1] # amBefore.ids[2]
    /\ amBefore.default = {amBefore.ids[1]}
    /\ saved.default = {}

----------------------------------------------------------------------------
(* Properties of the locks (checked under SpecLocks and SpecLocksFair) *)

\* task t holds the guard of an Account Record and is at a network exchange, or
\* at the lock().await of another mutex
AccountHeldAcross(t) ==
    /\ "Account" \in lkHeld[t]
    /\ Running(t)
    /\ \/ Instr(t).net
       \/ Instr(t).op = "lock"

\* C29: no task holds the lock of an Account Record while it performs network
\* I/O or while it waits to acquire another lock: in every reachable state, a
\* task that holds the guard of the account is neither at a network exchange nor
\* at the lock().await of a Protocol Client or a session.
C29_AccountLockReleasedFirst == \A t \in Tasks : ~AccountHeldAcross(t)

\* main is inside handle_key, called for a key that invokes an AppController
\* operation
HandlingOperationKey == lkProg["main"] \in Operations /\ Running("main")

\* C30: handling a key event never blocks the foreground loop forever: whenever
\* main, holding the AppState guard, is inside handle_key for a key that invokes
\* an AppController operation, the operation returns and the loop later reaches
\* its next iteration.
C30_HandleKeyReturns == HandlingOperationKey ~> (lkProg["main"] = "loop_head")

----------------------------------------------------------------------------
(* Properties of the connection orchestration under interleaving (checked under Spec) *)

\* the foreground operation has returned (or none was called) and the Health
\* Loop is between two passes: no connect() is in progress on any client
NoOperationInProgress == fgPc \in {"idle", "done"} /\ hlPc = "sleep"

\* C31: Connecting is a transient status: once connect_account or
\* retry_connections has returned and the Health Loop has ended its pass, no
\* protocol of any account has status Connecting, whether the attempts succeeded
\* or failed.
C31_ConnectingIsTransient ==
    NoOperationInProgress =>
        \A a \in Accounts, p \in ProtoSet : status[a][p] # "Connecting"

----------------------------------------------------------------------------
(* Properties of the background checker across stop and start *)

\* the spawned tasks that have not left their loop
AliveTasks == {t \in 1..Len(tasks) : Alive(tasks[t])}

\* C32: across any sequence of start_background_checker and
\* stop_background_checker calls at most one background checker task is alive
\* at any time.
C32_AtMostOneTask == Cardinality(AliveTasks) <= 1

\* task t is at the lock().await of a mutex whose guard it holds itself
WaitsForOwnGuard(t) ==
    /\ Running(t)
    /\ Instr(t).op = "lock"
    /\ Instr(t).lock \in lkHeld[t]

\* C33: within AppController no operation waits for a mutex that its own call
\* chain already holds: a task that calls an operation of AppController holding
\* no guard is never at the lock().await of a mutex it has locked itself.
C33_NoSelfWaitInController ==
    lkProg["worker"] \in ControllerPrograms => ~WaitsForOwnGuard("worker")

----------------------------------------------------------------------------
(* Properties of the POP3 line reader at the end of the stream (checked under SpecStreams) *)

\* read_multiline_response is in its loop and the stream has no byte left
AtEndOfStream == rmPc = "loop" /\ rmPos = Len(rmBytes)

\* C34: read_multiline_response terminates for every input stream: a turn of
\* its loop that finds the stream at its end (zero bytes read) before a line
\* equal to "." was received ends the call; it does not push an empty line and
\* go on reading.
C34_ReturnsAtEndOfStream ==
    [][ (AtEndOfStream /\ lineVars' # lineVars) => rmPc' # "loop" ]_vars

StoresSession(a, p) ==
    /\ connEvent' # connEvent
    /\ connEvent'.kind = "ok" /\ connEvent'.a = a /\ connEvent'.p = p

\* C36: a client's session is never replaced without first being closed: when a
\* connect() on an IMAP or POP3 client stores its new session, the client holds
\* no live session any more (the one it held was sent LOGOUT / QUIT and
\* released), so at most one server session per client is open.
C36_SessionClosedBeforeReplaced ==
    [][ \A a \in Accounts, p \in {"imap", "pop3"} :
           StoresSession(a, p) => session[a][p] = "none" ]_vars

----------------------------------------------------------------------------
(* Properties of the account operations of AppController (checked under SpecController) *)

\* the ids of the accounts of a configuration, in order
IdsOf(c) == [k \in 1..Len(c.accounts) |-> c.accounts[k].id]

\* C37: after any sequence of account additions, updates and deletions through
\* AppController, none of whose saves failed, the account list of the saved
\* configuration equals, in ids and order, the account list of AccountManager,
\* and no operation indexes past the end of the configuration's account list.
C37_SavedListIsMemoryList ==
    /\ fgRet # "panic"
    /\ (FgIdle /\ amFailures = 0) => IdsOf(saved) = acctIds

----------------------------------------------------------------------------
(* Properties of the lists of AccountManager (checked under SpecLists) *)

\* C38: in every reachable state of AccountManager, after any sequence of
\* load_accounts, add_account, update_account and delete_account, calls that
\* return an error included, the lists accounts, imap_clients, pop3_clients and
\* smtp_clients have the same length, and the three clients at index i are bound
\* to the Account Record at index i.
C38_ListsAligned ==
    /\ Len(imap_clients) = Len(account_arcs)
    /\ Len(pop3_clients) = Len(account_arcs)
    /\ Len(smtp_clients) = Len(account_arcs)
    /\ \A i \in 1..Len(account_arcs) :
          /\ imap_clients[i].account = account_arcs[i]
          /\ pop3_clients[i].account = account_arcs[i]
          /\ smtp_clients[i].account = account_arcs[i]

\* the first of several accounts has just been deleted: the record that was
\* allocated later is at index 1 now, and so is the client bound to it
C38_Witness ==
    /\ lsCall = ListCall("delete_account", 1, "Ok")
    /\ Len(account_arcs) = 1
    /\ account_arcs[1] > 1
    /\ smtp_clients[1].account = account_arcs[1]

----------------------------------------------------------------------------
(* Properties of the error text of an account (checked under Spec) *)

\* C39: whenever a protocol of an account has status Failed, the account's
\* last_error is set: a later successful connect of another protocol of the same
\* account does not erase the error text of the protocol that is still Failed.
C39_FailedKeepsErrorText ==
    \A a \in Accounts :
        (\E p \in ProtoSet : status[a][p] = "Failed") => last_error[a] # "none"

----------------------------------------------------------------------------
(* Properties of successive mutations (checked under SpecMail) *)

\* C40: a successful mutation loses no earlier flag change: when flag_email has
\* returned Ok and the next call, mark_as_read, returns Ok as well, every
\* message that was flagged in the Cache is still flagged (and the message
\* mark_as_read was called for is read), so that after flag_email(m) and
\* mark_as_read(m) with the same copy m the cached message is flagged and read.
C40_MarkAsReadKeepsFlag ==
    [][ ( /\ mmOp = "flag_email" /\ mmResult = "Ok"
          /\ mmOp' = "mark_as_read" /\ mmResult' = "Ok" ) =>
            \A k \in Keys : cache[k].is_flagged => cache'[k].is_flagged
      ]_vars

====
